---- MODULE Spec2Model ----
(***************************************************************************)
(* A model of the Twitch streamer monitor (src/bot.py, class               *)
(* TwitchMonitor): the Twitch API client, the two-phase stream filter, the *)
(* notified-streams ledger, the embed formatter and the monitoring loop    *)
(* with its Discord `ignore` command.                                      *)
(*                                                                         *)
(* Python values are represented as follows.  A str is a TLA+ string; the  *)
(* str methods the code uses (lower, strip) are tables over the strings of *)
(* the model.  None is the number -1 where the code expects an int and the *)
(* set None_tags where it expects a tag list.  A list is a sequence, a     *)
(* dict is a function or a record, a set is a set.                         *)
(***************************************************************************)
EXTENDS Integers, Sequences, FiniteSets, TLC

(***************************************************************************)
(* Bounds of the model.                                                    *)
(***************************************************************************)
\* number of stream records the API of the monitoring model can return
MaxStreams == 3
\* number of ready events delivered in one monitoring session
MaxTasks == 2
\* number of poll cycles started between two process starts
MaxCycles == 2
\* number of process restarts
MaxRestarts == 1
\* number of entries the ignore command may add to ignored_channels
MaxIgnored == 1

(***************************************************************************)
(* The state of the monitor.                                               *)
(***************************************************************************)
VARIABLES
    \* "init": __init__ has not run (only in SpecConfig);
    \* "exited": an exception has ended the process (only in SpecMenu);
    \* "menu": interactive_menu waits for input; "monitoring": asyncio.run(main())
    mode,
    \* self.config and the content of config.json
    config, config_file,
    \* self.notified_streams and the content of notified_streams.json
    notified_streams, ledger_file,
    \* the monitoring_loop tasks created by on_ready: where each one is, and
    \* the locals of its running check_and_notify
    pc, filtered_streams, new_streams, embeds, embed_i, sent_count,
    \* history: notified_streams and ledger_file when the task's cycle began
    cycle_ledger, cycle_file,
    \* history: the new streams of the task's previous cycle when one of its
    \* embeds failed, << >> otherwise
    failed_streams,
    \* history: the number of embeds of the task's cycle (until its next
    \* cycle begins) whose send failed
    unit_failures,
    \* history: the number of rate-limit sleeps the task's cycle has begun
    pauses,
    \* history: the phases the task's cycle has entered, in their order
    phases,
    \* history: how often each identity key was delivered to the channel
    \* (counted to 2), and notified_streams.json as it was when the process
    \* started
    delivered, file_at_start,
    \* history: the arguments of the ignore commands handled since the
    \* process started
    ignore_args,
    \* history: cycles started since the process started, process restarts
    cycles, restarts,
    \* the Twitch API client: the operation that is running ("none": no
    \* call is in progress), where it is, its argument and its return value
    api_op, api_pc, api_arg, api_result,
    \* self.twitch_token (NoToken: None, otherwise the number of the access
    \* token in the order the server issued them), self.twitch_headers (its
    \* Authorization value, NoHeaders: the empty dict) and whether
    \* twitch_client_id and twitch_client_secret are both configured
    twitch_token, twitch_headers, twitch_credentials,
    \* the locals of get_streams and get_broadcaster_types_batch: the loop
    \* index i, cursor, page_num, all_streams, seen_stream_ids, the dict
    \* broadcaster_types and the response received last
    batch_i, cursor, page_num, all_streams, seen_stream_ids,
    broadcaster_types_map, response,
    \* history: the request in flight (the status of its first answer, how
    \* often it was sent, how often validate_and_refresh_token was called
    \* for it and with what result) and the request settled last
    request, settled,
    \* history: whether a request of the running call ended with a network
    \* error or a non-auth HTTP error, and the ids of the batches of
    \* get_broadcaster_types_batch that were not answered with 200
    request_failed, failed_ids,
    \* a call of filter_streams on its own: where it is, the list it is
    \* called with, self.config and what it returns
    filter_pc, filter_input, filter_config, filter_result,
    \* filter_streams and format_streams_embed step by step, over two poll
    \* cycles: the number of the cycle (0: not running), the members of
    \* unique_user_ids the loop at line 429 has not visited yet, the dict
    \* follower_counts as built so far, and what get_follower_count and
    \* get_broadcaster_types_batch answer (the same in both cycles)
    lookup_run, pending_user_ids, counts_so_far, follower_answers, types_answers,
    \* history: how often get_follower_count was called for each id by
    \* filter_streams and by format_streams_embed in this cycle, and what
    \* the first cycle returned
    follower_calls, format_calls, first_run,
    \* the ledger on its own: what was done last with the ledger file
    \* ("none", "loaded", "flushed" or, for a save that failed, "flush_failed")
    ledger_op,
    \* a call of format_streams_embed on its own: where it is, the list and
    \* the dict it is called with, and the embeds it returns
    \* (format_values[i][j]: the value of field j of embed i)
    format_pc, format_streams, format_followers, format_embeds, format_values

mainVars == <<mode, config, config_file, notified_streams, ledger_file,
              pc, filtered_streams, new_streams, embeds, embed_i, sent_count,
              cycle_ledger, cycle_file, failed_streams, unit_failures, pauses,
              phases,
              delivered, file_at_start,
              ignore_args, cycles, restarts>>

apiVars == <<api_op, api_pc, api_arg, api_result, twitch_token, twitch_headers,
             twitch_credentials, batch_i, cursor, page_num, all_streams,
             seen_stream_ids, broadcaster_types_map, response, request, settled,
             request_failed, failed_ids>>

filterVars == <<filter_pc, filter_input, filter_config, filter_result>>

lookupVars == <<lookup_run, pending_user_ids, counts_so_far, follower_answers,
                types_answers, follower_calls, format_calls, first_run>>

\* the variables each part of the model leaves alone
storeVars == <<ledger_op>>

formatVars == <<format_pc, format_streams, format_followers, format_embeds,
                format_values>>

nonMainVars == <<apiVars, filterVars, lookupVars, storeVars, formatVars>>
nonApiVars == <<mainVars, filterVars, lookupVars, storeVars, formatVars>>
nonFilterVars == <<mainVars, apiVars, lookupVars, storeVars, formatVars>>
nonFormatVars == <<mainVars, apiVars, filterVars, lookupVars, storeVars>>

vars == <<mainVars, apiVars, filterVars, lookupVars, storeVars, formatVars>>

(***************************************************************************)
(* Python values.                                                          *)
(***************************************************************************)
None == -1
None_tags == {"<None>"}

Min(a, b) == IF a < b THEN a ELSE b

\* str.lower() on the strings of the model
str_lower(s) ==
    CASE s = "Alice"  -> "alice"
      [] s = "ALICE"  -> "alice"
      [] s = " Alice" -> " alice"
      [] s = "Bob"    -> "bob"
      [] OTHER        -> s

\* str.strip() on the strings of the model
str_strip(s) ==
    CASE s = " Alice" -> "Alice"
      [] s = " alice" -> "alice"
      [] OTHER        -> s

Range(f) == {f[x] : x \in DOMAIN f}

\* dict.get(key) of a dict with int values: None when the key is absent
dict_get(d, k) == IF k \in DOMAIN d THEN d[k] ELSE None

(***************************************************************************)
(* Stream records and the identity key.                                    *)
(* A stream record has the fields id, user_id, user_name, game_name,       *)
(* viewer_count and tags of the Helix "streams" answer.                    *)
(***************************************************************************)
\* TwitchMonitor.get_stream_id: f"{user_id}_{id}"
get_stream_id(stream) == stream.user_id \o "_" \o stream.id

(***************************************************************************)
(* TwitchMonitor.filter_streams.                                           *)
(* cfg is self.config; followers[u] is what get_follower_count(u) returns  *)
(* in this pass (None: unknown); types is the dict that                    *)
(* get_broadcaster_types_batch returns in this pass.                       *)
(***************************************************************************)
\* the ignored-channel rule comparing the names as they are written
IgnoredRule_CaseSensitive(stream, cfg) ==
    /\ cfg.ignored_channels # <<>>
    /\ \/ stream.user_name \in Range(cfg.ignored_channels)
       \/ stream.user_id \in Range(cfg.ignored_channels)

\* the ignored-channel rule looking at channel names only
IgnoredRule_NameOnly(stream, cfg) ==
    /\ cfg.ignored_channels # <<>>
    /\ str_lower(stream.user_name)
          \in {str_lower(ch) : ch \in Range(cfg.ignored_channels)}

\* lines 374-379: the ignored-channel rule
IgnoredRule(stream, cfg) ==
    /\ cfg.ignored_channels # <<>>
    /\ \/ str_lower(stream.user_name)
            \in {str_lower(ch) : ch \in Range(cfg.ignored_channels)}
       \/ stream.user_id \in Range(cfg.ignored_channels)

\* a viewer rule that rejects a count equal to a bound
ViewerRule_Exclusive(stream, cfg) ==
    IF stream.viewer_count <= cfg.min_viewers THEN "min_viewers"
    ELSE IF cfg.max_viewers = None THEN "TypeError"
    ELSE IF stream.viewer_count >= cfg.max_viewers THEN "max_viewers"
    ELSE "pass"

\* lines 381-388: the viewer rule; comparing an int with None raises TypeError
ViewerRule(stream, cfg) ==
    IF stream.viewer_count < cfg.min_viewers THEN "min_viewers"
    ELSE IF cfg.max_viewers = None THEN "TypeError"
    ELSE IF stream.viewer_count > cfg.max_viewers THEN "max_viewers"
    ELSE "pass"

\* tag rules whose exclude rule also rejects a stream without a tag list
TagRule_ExcludeAbsent(stream, cfg) ==
    IF cfg.required_tags # {} /\ stream.tags = None_tags THEN "tags"
    ELSE IF /\ cfg.required_tags # {}
            /\ stream.tags # None_tags
            /\ ~(cfg.required_tags \subseteq stream.tags) THEN "tags"
    ELSE IF /\ cfg.exclude_tags # {}
            /\ \/ stream.tags = None_tags
               \/ cfg.exclude_tags \cap stream.tags # {} THEN "exclude_tags"
    ELSE "pass"

\* lines 390-411: the tag rules
TagRule(stream, cfg) ==
    IF cfg.required_tags # {} /\ stream.tags = None_tags THEN "tags"
    ELSE IF /\ cfg.required_tags # {}
            /\ stream.tags # None_tags
            /\ ~(cfg.required_tags \subseteq stream.tags) THEN "tags"
    ELSE IF /\ cfg.exclude_tags # {}
            /\ stream.tags # None_tags
            /\ cfg.exclude_tags \cap stream.tags # {} THEN "exclude_tags"
    ELSE "pass"

\* lines 369-414: the verdict of the first pass on one stream
FirstPass(stream, cfg) ==
    IF IgnoredRule(stream, cfg) THEN "ignored_channels"
    ELSE IF ViewerRule(stream, cfg) # "pass" THEN ViewerRule(stream, cfg)
    ELSE TagRule(stream, cfg)

\* an affiliate/partner rule that lets a broadcaster of unknown type through
AffiliateRule_UnknownPasses(stream, cfg, broadcaster_types) ==
    /\ cfg.affiliate_or_partner_only
    /\ stream.user_id \in DOMAIN broadcaster_types
    /\ broadcaster_types[stream.user_id] \notin {"affiliate", "partner"}

\* lines 453-463: the affiliate/partner rule of the second pass
AffiliateRule(stream, cfg, broadcaster_types) ==
    /\ cfg.affiliate_or_partner_only
    /\ \/ stream.user_id \notin DOMAIN broadcaster_types
       \/ broadcaster_types[stream.user_id] \notin {"affiliate", "partner"}

\* a follower rule that rejects a broadcaster whose count is unknown
FollowerRule_UnknownRejected(stream, cfg, follower_counts) ==
    /\ cfg.min_followers > 0 \/ cfg.max_followers # None
    /\ \/ dict_get(follower_counts, stream.user_id) = None
       \/ dict_get(follower_counts, stream.user_id) < cfg.min_followers
       \/ /\ cfg.max_followers # None
          /\ dict_get(follower_counts, stream.user_id) > cfg.max_followers

\* lines 465-477: the follower rule of the second pass
FollowerRule(stream, cfg, follower_counts) ==
    /\ cfg.min_followers > 0 \/ cfg.max_followers # None
    /\ dict_get(follower_counts, stream.user_id) # None
    /\ \/ dict_get(follower_counts, stream.user_id) < cfg.min_followers
       \/ /\ cfg.max_followers # None
          /\ dict_get(follower_counts, stream.user_id) > cfg.max_followers

\* lines 328-504: the result of filter_streams.  raised: the call ends with
\* an exception; user_ids: the ids get_follower_count was called with;
\* types_fetched: whether get_broadcaster_types_batch was called;
\* broadcaster_types: the dict the second pass looks the types up in.
filter_streams(streams, cfg, followers, types) ==
    LET pre_filtered_streams ==
            SelectSeq(streams, LAMBDA s : FirstPass(s, cfg) = "pass")
        unique_user_ids ==
            {s.user_id : s \in {x \in Range(pre_filtered_streams) : x.user_id # ""}}
        follower_counts ==
            [u \in {v \in unique_user_ids : followers[v] # None} |-> followers[u]]
        types_fetched == unique_user_ids # {} /\ cfg.affiliate_or_partner_only
        broadcaster_types == IF types_fetched THEN types ELSE << >>
        filtered ==
            SelectSeq(pre_filtered_streams,
                      LAMBDA s : /\ ~AffiliateRule(s, cfg, broadcaster_types)
                                 /\ ~FollowerRule(s, cfg, follower_counts))
        raised == \E k \in DOMAIN streams : FirstPass(streams[k], cfg) = "TypeError"
    IN  [raised |-> raised,
         filtered |-> IF raised THEN << >> ELSE filtered,
         follower_counts |-> IF raised THEN << >> ELSE follower_counts,
         user_ids |-> IF raised THEN {} ELSE unique_user_ids,
         types_fetched |-> ~raised /\ types_fetched,
         broadcaster_types |-> IF raised THEN << >> ELSE broadcaster_types]

(***************************************************************************)
(* TwitchMonitor.format_streams_embed.                                     *)
(* An embed is a record: title (the game name), fields (one per stream:    *)
(* the stream and the follower count shown with its name, None when it is  *)
(* not shown) and footer (<<X, Y>> for "Page X of Y", << >> for none).     *)
(***************************************************************************)
max_streams_per_embed == 10

\* the games in the order of their last stream, latest first
RECURSIVE GameOrder_FromEnd(_)
GameOrder_FromEnd(streams) ==
    IF streams = << >> THEN << >>
    ELSE LET back == GameOrder_FromEnd(Tail(streams))
             game_name == Head(streams).game_name
         IN  IF game_name \in Range(back) THEN back
             ELSE Append(back, game_name)

\* lines 629-634: the keys of streams_by_game in insertion order
RECURSIVE GameOrder(_)
GameOrder(streams) ==
    IF streams = << >> THEN << >>
    ELSE LET front == GameOrder(SubSeq(streams, 1, Len(streams) - 1))
             game_name == streams[Len(streams)].game_name
         IN  IF game_name \in Range(front) THEN front
             ELSE Append(front, game_name)

\* lines 670-710: the embed_index-th embed (from 0) of one game
GameEmbed(game_name, game_streams, embed_index, total_embeds, follower_counts) ==
    LET start_idx == embed_index * max_streams_per_embed
        end_idx == Min(start_idx + max_streams_per_embed, Len(game_streams))
        chunk_streams == SubSeq(game_streams, start_idx + 1, end_idx)
    IN  [title |-> game_name,
         fields |-> [k \in DOMAIN chunk_streams |->
                        [stream |-> chunk_streams[k],
                         followers |-> dict_get(follower_counts,
                                                chunk_streams[k].user_id)]],
         footer |-> IF total_embeds > 1
                    THEN <<embed_index + 1, total_embeds>> ELSE << >>]

\* a count of embeds that is one more than the full chunks
GameEmbeds_OneMoreThanFull(game_name, streams, follower_counts) ==
    LET game_streams == SelectSeq(streams, LAMBDA s : s.game_name = game_name)
        total_embeds == Len(game_streams) \div max_streams_per_embed + 1
    IN  [e \in 1..total_embeds |->
            GameEmbed(game_name, game_streams, e - 1, total_embeds, follower_counts)]

\* lines 665-710: the embeds of one game
GameEmbeds(game_name, streams, follower_counts) ==
    LET game_streams == SelectSeq(streams, LAMBDA s : s.game_name = game_name)
        total_embeds == (Len(game_streams) + max_streams_per_embed - 1)
                            \div max_streams_per_embed
    IN  [e \in 1..total_embeds |->
            GameEmbed(game_name, game_streams, e - 1, total_embeds, follower_counts)]

RECURSIVE EmbedsOfGames(_, _, _)
EmbedsOfGames(games, streams, follower_counts) ==
    IF games = << >> THEN << >>
    ELSE GameEmbeds(Head(games), streams, follower_counts)
            \o EmbedsOfGames(Tail(games), streams, follower_counts)

\* lines 620-712, called with follower_counts given (as check_and_notify does)
format_streams_embed(streams, follower_counts) ==
    EmbedsOfGames(GameOrder(streams), streams, follower_counts)

\* stream.get("title", "No title"), line 685
stream_title(stream) ==
    IF "title" \in DOMAIN stream THEN stream.title ELSE "No title"

\* lines 687 and 694: the value of a field as it is rendered
rendered_value(stream) ==
    "[**" \o stream_title(stream) \o "**](https://www.twitch.tv/"
        \o stream.user_name \o ") (Viewers: "
        \o ToString(stream.viewer_count) \o ")"

\* a cut that begins above 1020 characters
field_value_CutAbove1020(stream) ==
    IF Len(rendered_value(stream)) > 1020
    THEN SubSeq(rendered_value(stream), 1, 1020) \o "..."
    ELSE rendered_value(stream)

\* lines 694-698: the value of a field as it is added to the embed
field_value(stream) ==
    IF Len(rendered_value(stream)) > 1024
    THEN SubSeq(rendered_value(stream), 1, 1020) \o "..."
    ELSE rendered_value(stream)

\* the values of the fields of a list of embeds
FieldValues(embed_list) ==
    [i \in DOMAIN embed_list |->
        [j \in DOMAIN embed_list[i].fields |->
            field_value(embed_list[i].fields[j].stream)]]

\* the streams shown by an embed
EmbedStreams(embed) == {embed.fields[k].stream : k \in DOMAIN embed.fields}

(***************************************************************************)
(* Files.  A file is a record: state is "missing", "invalid" (not JSON: a  *)
(* write that failed after open(..., 'w') truncated the file) or "valid",  *)
(* and content is what a valid file holds.                                 *)
(***************************************************************************)
WriteOutcomes == {"ok", "open_fails", "write_fails"}

\* open(path, 'w') followed by json.dump
write_file(file, content, empty, outcome) ==
    CASE outcome = "ok"          -> [state |-> "valid", content |-> content]
      [] outcome = "open_fails"  -> file
      [] outcome = "write_fails" -> [state |-> "invalid", content |-> empty]

NoFile == [state |-> "missing", content |-> << >>]

\* a start that does not read the ledger file
load_notified_streams_Empty(file) == {}

\* The ledger file has more states than "missing", "invalid" (not JSON) and
\* "valid" ({"notified_streams": [...]}, content: the list): "not_object"
\* (a JSON value that is no object), "no_key" (an object without the key),
\* "null_value" and "number_value" (the key holds null, a number) and
\* "string_value" (the key holds a string, content: its characters).

\* set(x) of a list or of a string: its items, its characters
set_of(x) == Range(x)

\* list(s) of a set: its members in some order, each once
RECURSIVE list_of(_)
list_of(S) ==
    IF S = {} THEN << >>
    ELSE LET x == CHOOSE y \in S : TRUE IN <<x>> \o list_of(S \ {x})

\* TwitchMonitor.load_notified_streams, lines 85-99.  json.load raises on a
\* missing or invalid file, data.get on a value that is no object, set() on
\* null and on a number; all of it is caught.  A missing key gives set([]).
load_notified_streams(file) ==
    CASE file.state = "valid"        -> set_of(file.content)
      [] file.state = "string_value" -> set_of(file.content)
      [] OTHER                       -> {}

\* a save that leaves a file alone that already holds a list
save_notified_streams_as_KeepList(file, listed, outcome) ==
    IF file.state = "valid" THEN file ELSE write_file(file, listed, << >>, outcome)

\* lines 101-110 with listed = list(self.notified_streams): an exception is
\* printed and swallowed
save_notified_streams_as(file, listed, outcome) ==
    write_file(file, listed, << >>, outcome)

\* TwitchMonitor.save_notified_streams
save_notified_streams(file, notified, outcome) ==
    save_notified_streams_as(file, list_of(notified), outcome)

(***************************************************************************)
(* The Twitch API client.  requests.get and requests.post block, so a call *)
(* of the client runs without interleaving; a step of the model is one     *)
(* answer of the server.  A response is a record: status (200, 401, 500    *)
(* for the other HTTP errors, NetworkError when the request raises a       *)
(* RequestException that is not an HTTPError), data ("data" of the JSON    *)
(* body), cursor ("pagination.cursor", "" when absent) and total.          *)
(***************************************************************************)
\* bounds of the client model: stream records per page, pages per batch,
\* access tokens obtained, length of the longest id list
MaxPageLen == 2
MaxPages == 2
MaxTokens == 2
MaxIds == 101

\* lines 235 and 588: ids per request
BatchSize == 100

NetworkError == 0
NoCursor == ""

\* line 26: self.twitch_token = None; line 41: self.twitch_headers = {}
NoToken == 0
NoHeaders == ""

\* lines 35-37 and 140-142: the Authorization value of the headers
headers_for(token) == "Bearer " \o ToString(token)

\* __init__, lines 34-41: the headers after the first acquisition
headers_at_init(token) ==
    IF token # NoToken THEN headers_for(token) ELSE NoHeaders

\* an acquisition that forgets the token when it fails
token_after_ClearedOnFailure(answer, token) ==
    IF answer = "token" THEN token + 1 ELSE NoToken

\* get_app_access_token, lines 137-158: self.twitch_token after the answer
\* of /oauth2/token; only an answer with a token assigns it
token_after(answer, token) ==
    IF answer = "token" THEN token + 1 ELSE token

\* stream records of the Helix answers: ids are digit strings
ApiStreams ==
    {[user_id |-> "1", id |-> "12", viewer_count |-> 5],
     [user_id |-> "11", id |-> "2", viewer_count |-> 5],
     [user_id |-> "1", id |-> "2", viewer_count |-> 5],
     [user_id |-> "1", id |-> "2", viewer_count |-> 6]}

PageData == UNION {[1..n -> ApiStreams] : n \in 0..MaxPageLen}

ErrorResponse(status) ==
    [status |-> status, data |-> << >>, cursor |-> NoCursor, total |-> 0]

ErrorResponses == {ErrorResponse(401), ErrorResponse(500), ErrorResponse(NetworkError)}

\* the answers to a request of get_streams for page page
StreamsResponses(page) ==
    {[status |-> 200, data |-> d, cursor |-> c, total |-> 0] :
        d \in PageData,
        c \in IF page < MaxPages THEN {NoCursor, "c1"} ELSE {NoCursor}}
    \cup ErrorResponses

\* the answers to a request of get_follower_count
FollowerResponses ==
    {[status |-> 200, data |-> << >>, cursor |-> NoCursor, total |-> n] : n \in {0, 7}}
    \cup ErrorResponses

\* the id list with n entries
IdList(n) == [k \in 1..n |-> ToString(k)]

\* the lists passed as game_ids and as user_ids
IdLists == {IdList(0), IdList(1), IdList(MaxIds)}

\* game_ids[i:i+100] and user_ids[i:i+100]
Batch(ids, i) == SubSeq(ids, i + 1, Min(i + BatchSize, Len(ids)))

\* the answers to a request of get_broadcaster_types_batch for a batch: all
\* of its users, the first of them, or none
TypesResponses(batch) ==
    {[status |-> 200, data |-> d, cursor |-> NoCursor, total |-> 0] :
        d \in {[k \in DOMAIN batch |-> [id |-> batch[k], broadcaster_type |-> "partner"]],
               [k \in 1..Min(1, Len(batch)) |-> [id |-> batch[k], broadcaster_type |-> ""]],
               << >>}}
    \cup ErrorResponses

\* a stream key that joins the two ids without a separator
stream_id_NoSeparator(stream) == stream.user_id \o stream.id

\* get_streams lines 264 and 297: stream_id, the key of seen_stream_ids
stream_id(stream) == stream.user_id \o "_" \o stream.id

\* get_streams lines 263-269 and 296-302: the streams of a page are added
RECURSIVE AddStreams(_, _, _)
AddStreams(all, seen, batch_streams) ==
    IF batch_streams = << >>
    THEN [all_streams |-> all, seen_stream_ids |-> seen]
    ELSE LET stream == Head(batch_streams)
         IN  IF stream_id(stream) \notin seen
             THEN AddStreams(Append(all, stream), seen \cup {stream_id(stream)},
                             Tail(batch_streams))
             ELSE AddStreams(all, seen, Tail(batch_streams))

\* a retry path that appends the streams of its page without looking at
\* seen_stream_ids
AddRetried_NoDedup(all, seen, batch_streams) ==
    [all_streams |-> all \o batch_streams,
     seen_stream_ids |-> seen \cup {stream_id(stream) : stream \in Range(batch_streams)}]

\* get_streams lines 296-302: the copy of the loop of lines 263-269 on the
\* retry path
AddRetried(all, seen, batch_streams) == AddStreams(all, seen, batch_streams)

\* get_broadcaster_types_batch lines 596-600 and 608-612: the users of an
\* answer are entered into the dict, a later entry of an id replaces an
\* earlier one
AddTypes(types, users) ==
    [u \in DOMAIN types \cup {users[k].id : k \in DOMAIN users} |->
        IF \E k \in DOMAIN users : users[k].id = u
        THEN LET last == CHOOSE k \in DOMAIN users :
                            /\ users[k].id = u
                            /\ \A j \in DOMAIN users : users[j].id = u => j <= k
             IN  users[last].broadcaster_type
        ELSE types[u]]

\* a follower count taken from any answer
follower_total_AnyStatus(resp) == resp.total

\* get_follower_count lines 516-519 and 524-526: the value of an answer
follower_total(resp) == IF resp.status = 200 THEN resp.total ELSE None

\* a retry that does not depend on the re-authentication
RetryAllowed_Always(validated) == TRUE

\* lines 283, 521 and 602: the request is sent again when
\* validate_and_refresh_token returned True
RetryAllowed(validated) == validated

NoRequest == [first |-> None, last |-> None, attempts |-> 0, reauths |-> 0,
              validated |-> FALSE]
NoResponse == ErrorResponse(None)

\* a request is sent for the first time
NewRequest == [NoRequest EXCEPT !.attempts = 1]

\* no call of the client is in progress
ApiIdle ==
    /\ api_op = "none"
    /\ api_pc = "idle"
    /\ api_arg = << >>
    /\ api_result = << >>
    /\ batch_i = 0
    /\ cursor = NoCursor
    /\ page_num = 1
    /\ all_streams = << >>
    /\ seen_stream_ids = {}
    /\ broadcaster_types_map = << >>
    /\ response = NoResponse
    /\ request = NoRequest
    /\ settled = NoRequest
    /\ request_failed = FALSE
    /\ failed_ids = {}

clientLocals == <<batch_i, cursor, page_num, all_streams, seen_stream_ids,
                  broadcaster_types_map, response, request, settled,
                  request_failed, failed_ids>>
tokenVars == <<twitch_token, twitch_headers, twitch_credentials>>

(***************************************************************************)
(* The calls of the Twitch API client, one answer of the server per step.  *)
(***************************************************************************)
\* the locals of a call that begins
StartCall(op, arg) ==
    /\ api_pc = "idle"
    /\ api_op' = op
    /\ api_arg' = arg
    /\ UNCHANGED <<batch_i, cursor, page_num, all_streams, seen_stream_ids,
                   broadcaster_types_map, response, settled, request_failed,
                   failed_ids>>

\* get_streams, lines 210-246: no game ids or no headers end the call with
\* [], otherwise the first page of the first batch is requested
get_streams(game_ids) ==
    /\ StartCall("get_streams", game_ids)
    /\ IF game_ids = << >> \/ twitch_headers = NoHeaders
       THEN api_pc' = "done" /\ request' = NoRequest
       ELSE api_pc' = "request" /\ request' = NewRequest
    /\ api_result' = << >>
    /\ UNCHANGED <<tokenVars, nonApiVars>>

\* get_follower_count, lines 506-515
get_follower_count(user_id) ==
    /\ StartCall("get_follower_count", user_id)
    /\ IF twitch_headers = NoHeaders \/ user_id = ""
       THEN api_pc' = "done" /\ request' = NoRequest
       ELSE api_pc' = "request" /\ request' = NewRequest
    /\ api_result' = None
    /\ UNCHANGED <<tokenVars, nonApiVars>>

\* get_broadcaster_types_batch, lines 570-592
get_broadcaster_types_batch(user_ids) ==
    /\ StartCall("get_broadcaster_types_batch", user_ids)
    /\ IF twitch_headers = NoHeaders \/ user_ids = << >>
       THEN api_pc' = "done" /\ request' = NoRequest
       ELSE api_pc' = "request" /\ request' = NewRequest
    /\ api_result' = << >>
    /\ UNCHANGED <<tokenVars, nonApiVars>>

\* a for loop that does not move on to the next batch
NextBatch_SameBatch(collected) ==
    IF batch_i + BatchSize < Len(api_arg)
    THEN /\ batch_i' = batch_i
         /\ api_pc' = "request"
         /\ request' = NewRequest
         /\ UNCHANGED api_result
    ELSE /\ batch_i' = batch_i
         /\ api_pc' = "done"
         /\ request' = NoRequest
         /\ api_result' = collected

\* the for loops at lines 235 and 588 go on with the next batch or end, and
\* the call returns what it collected
NextBatch(collected) ==
    IF batch_i + BatchSize < Len(api_arg)
    THEN /\ batch_i' = batch_i + BatchSize
         /\ api_pc' = "request"
         /\ request' = NewRequest
         /\ UNCHANGED api_result
    ELSE /\ batch_i' = batch_i
         /\ api_pc' = "done"
         /\ request' = NoRequest
         /\ api_result' = collected

\* The request req is over with the answer resp: an answer to its first or
\* its second sending, or the 401 after which it is not sent again.
\* get_streams: lines 259-279 and 292-308 (a page), 309-322 (break);
\* get_follower_count: lines 516-532; get_broadcaster_types_batch: lines
\* 593-616.
Settle(req, resp) ==
    /\ settled' = req
    /\ request_failed' = (request_failed \/ resp.status \in {500, NetworkError})
    /\ CASE api_op = "get_streams" ->
              LET added == IF req.attempts = 2
                           THEN AddRetried(all_streams, seen_stream_ids, resp.data)
                           ELSE AddStreams(all_streams, seen_stream_ids, resp.data)
              IN  /\ UNCHANGED <<broadcaster_types_map, failed_ids>>
                  /\ IF resp.status = 200
                     THEN /\ all_streams' = added.all_streams
                          /\ seen_stream_ids' = added.seen_stream_ids
                          /\ IF resp.cursor # NoCursor
                             THEN /\ cursor' = resp.cursor
                                  /\ page_num' = page_num + 1
                                  /\ api_pc' = "request"
                                  /\ request' = NewRequest
                                  /\ UNCHANGED <<batch_i, api_result>>
                             ELSE /\ cursor' = NoCursor
                                  /\ page_num' = 1
                                  /\ NextBatch(all_streams')
                     ELSE /\ UNCHANGED <<all_streams, seen_stream_ids>>
                          /\ cursor' = NoCursor
                          /\ page_num' = 1
                          /\ NextBatch(all_streams)
         [] api_op = "get_follower_count" ->
              /\ api_pc' = "done"
              /\ request' = NoRequest
              /\ api_result' = follower_total(resp)
              /\ UNCHANGED <<batch_i, cursor, page_num, all_streams,
                             seen_stream_ids, broadcaster_types_map, failed_ids>>
         [] api_op = "get_broadcaster_types_batch" ->
              /\ broadcaster_types_map' = IF resp.status = 200
                                      THEN AddTypes(broadcaster_types_map, resp.data)
                                      ELSE broadcaster_types_map
              /\ failed_ids' = IF resp.status = 200 THEN failed_ids
                               ELSE failed_ids \cup Range(Batch(api_arg, batch_i))
              /\ NextBatch(broadcaster_types_map')
              /\ UNCHANGED <<cursor, page_num, all_streams, seen_stream_ids>>

\* the answers the server may give to the request in flight
Responses ==
    CASE api_op = "get_streams" -> StreamsResponses(page_num)
      [] api_op = "get_follower_count" -> FollowerResponses
      [] api_op = "get_broadcaster_types_batch" ->
            TypesResponses(Batch(api_arg, batch_i))
      [] OTHER -> {}

\* lines 256-258, 281-283, 515-521, 592-602: the first sending of a request
\* is answered; after a 401 validate_and_refresh_token is called, lines
\* 160-167
Respond(resp) ==
    /\ api_pc = "request"
    /\ response' = resp
    /\ LET req == [request EXCEPT !.first = resp.status, !.last = resp.status]
       IN  IF resp.status = 401
           THEN /\ api_pc' = "validate"
                /\ request' = [req EXCEPT !.reauths = @ + 1]
                /\ UNCHANGED <<api_result, batch_i, cursor, page_num,
                               all_streams, seen_stream_ids, broadcaster_types_map,
                               settled, request_failed, failed_ids>>
           ELSE Settle(req, resp)
    /\ UNCHANGED <<api_op, api_arg, tokenVars, nonApiVars>>

\* validate_and_refresh_token has returned validated: the request is sent
\* again, or it is given up
AfterValidation(validated) ==
    IF RetryAllowed(validated)
    THEN /\ api_pc' = "retry"
         /\ request' = [request EXCEPT !.validated = validated,
                                       !.attempts = @ + 1]
         /\ UNCHANGED <<api_result, batch_i, cursor, page_num, all_streams,
                        seen_stream_ids, broadcaster_types_map, settled,
                        request_failed, failed_ids>>
    ELSE Settle([request EXCEPT !.validated = validated], response)

\* validate_and_refresh_token, lines 166-176: the answer of /oauth2/validate.
\* 200 returns True; everything else calls get_app_access_token, which
\* returns None without a request when a credential is missing (lines 122-124)
validate_and_refresh_token(status) ==
    /\ api_pc = "validate"
    /\ IF status = 200
       THEN AfterValidation(TRUE)
       ELSE IF twitch_credentials
            THEN /\ api_pc' = "token"
                 /\ UNCHANGED <<api_result, clientLocals>>
            ELSE AfterValidation(FALSE)
    /\ UNCHANGED <<api_op, api_arg, response, tokenVars, nonApiVars>>

TokenAnswers == {"token", "no_token", "http_error", "network_error"}

\* get_app_access_token, lines 133-158: the answer of /oauth2/token
get_app_access_token(answer) ==
    /\ api_pc = "token"
    /\ answer = "token" => twitch_token < MaxTokens
    /\ twitch_token' = token_after(answer, twitch_token)
    /\ twitch_headers' = IF answer = "token" THEN headers_for(twitch_token')
                         ELSE twitch_headers
    /\ AfterValidation(answer = "token")
    /\ UNCHANGED <<api_op, api_arg, response, twitch_credentials, nonApiVars>>

\* lines 291-308, 523-526, 604-612: the second sending is answered
Retry(resp) ==
    /\ api_pc = "retry"
    /\ response' = resp
    /\ Settle([request EXCEPT !.last = resp.status], resp)
    /\ UNCHANGED <<api_op, api_arg, tokenVars, nonApiVars>>

\* the call returns to its caller
Return ==
    /\ api_pc = "done"
    /\ api_op' = "none"
    /\ api_pc' = "idle"
    /\ api_arg' = << >>
    /\ api_result' = << >>
    /\ batch_i' = 0
    /\ cursor' = NoCursor
    /\ page_num' = 1
    /\ all_streams' = << >>
    /\ seen_stream_ids' = {}
    /\ broadcaster_types_map' = << >>
    /\ response' = NoResponse
    /\ request' = NoRequest
    /\ settled' = NoRequest
    /\ request_failed' = FALSE
    /\ failed_ids' = {}
    /\ UNCHANGED <<tokenVars, nonApiVars>>

(***************************************************************************)
(* The monitoring model: the menu, start_monitoring, the monitoring_loop   *)
(* tasks, check_and_notify and the ignore command.                         *)
(***************************************************************************)
Tasks == 1..MaxTasks

\* The stream records the Helix API answers with in the monitoring model.
\* Stream 3 has more viewers than max_viewers allows.
MainStream(k) ==
    [id |-> ToString(k),
     user_id |-> ToString(10 + k),
     user_name |-> IF k = 1 THEN "Alice" ELSE "user" \o ToString(k),
     game_name |-> "game" \o ToString(k),
     viewer_count |-> IF k = 3 THEN 50 ELSE 5,
     tags |-> {}]

MainStreams == {MainStream(k) : k \in 1..MaxStreams}
MainKeys == {get_stream_id(s) : s \in MainStreams}
MainUserIds == {s.user_id : s \in MainStreams}

\* the streams with the numbers of S, in ascending order
RECURSIVE StreamList(_)
StreamList(S) ==
    IF S = {} THEN << >>
    ELSE LET m == CHOOSE x \in S : \A y \in S : y <= x
         IN  Append(StreamList(S \ {m}), MainStream(m))

\* What get_streams may return to a cycle: any selection of the streams, none
\* of them also when the requests fail
ApiResults == {StreamList(S) : S \in SUBSET (1..MaxStreams)}

\* What get_follower_count answers in a cycle: 7 for user 11, unknown for
\* the others
MainFollowers == {[u \in MainUserIds |-> IF u = "11" THEN 7 ELSE None]}

\* The arguments of the ignore command
IgnoreArgs == {"alice", "12"}

\* load_config on a valid file (lines 55-70 set the defaults of missing keys)
InitialConfig ==
    [min_viewers |-> 0, max_viewers |-> 20,
     min_followers |-> 0, max_followers |-> None,
     required_tags |-> {}, exclude_tags |-> {},
     ignored_channels |-> << >>,
     affiliate_or_partner_only |-> FALSE,
     game_ids |-> <<"509658">>]

NoLocals(t) ==
    /\ cycle_ledger' = [cycle_ledger EXCEPT ![t] = {}]
    /\ cycle_file' = [cycle_file EXCEPT ![t] = NoFile]
    /\ filtered_streams' = [filtered_streams EXCEPT ![t] = << >>]
    /\ new_streams' = [new_streams EXCEPT ![t] = << >>]
    /\ embeds' = [embeds EXCEPT ![t] = << >>]
    /\ embed_i' = [embed_i EXCEPT ![t] = 0]
    /\ sent_count' = [sent_count EXCEPT ![t] = 0]

\* a task is between two awaits: nothing else runs on the event loop
Running == \E t \in Tasks : pc[t] = "checked"

\* no task, no cycle, no command yet
InitLocals ==
    /\ pc = [t \in Tasks |-> "none"]
    /\ filtered_streams = [t \in Tasks |-> << >>]
    /\ new_streams = [t \in Tasks |-> << >>]
    /\ embeds = [t \in Tasks |-> << >>]
    /\ embed_i = [t \in Tasks |-> 0]
    /\ sent_count = [t \in Tasks |-> 0]
    /\ cycle_ledger = [t \in Tasks |-> {}]
    /\ cycle_file = [t \in Tasks |-> NoFile]
    /\ failed_streams = [t \in Tasks |-> << >>]
    /\ delivered = [k \in MainKeys |-> 0]
    /\ unit_failures = [t \in Tasks |-> 0]
    /\ pauses = [t \in Tasks |-> 0]
    /\ phases = [t \in Tasks |-> << >>]
    /\ ignore_args = {}
    /\ cycles = 0
    /\ restarts = 0

\* __init__, lines 21-46: the state after construction but for the ledger
\* and the config
InitButFiles ==
    /\ mode = "menu"
    /\ InitLocals

\* __init__ with load_config on the file of InitialConfig
InitButLedger ==
    /\ config = InitialConfig
    /\ config_file = [state |-> "valid", content |-> InitialConfig]
    /\ InitButFiles

\* __init__ with load_notified_streams, line 24
InitLoadedLedger ==
    /\ ledger_file \in {NoFile,
                        [state |-> "valid", content |-> <<get_stream_id(MainStream(1))>>]}
    /\ notified_streams = load_notified_streams(ledger_file)
    /\ file_at_start = ledger_file

InitMain ==
    /\ InitButLedger
    /\ InitLoadedLedger

(***************************************************************************)
(* filter_streams on its own: the call is made with any list of streams    *)
(* and any viewer bounds; it runs without interleaving.                    *)
(***************************************************************************)
\* length of the longest list filter_streams is called with
MaxInput == 3

\* the stream with viewer_count v
FilterStream(v) ==
    [id |-> ToString(v), user_id |-> ToString(1000 + v),
     user_name |-> "user" \o ToString(v), game_name |-> "game",
     viewer_count |-> v, tags |-> {}]

ViewerCounts == {5, 10, 50, 100, 150}
FilterStreams == {FilterStream(v) : v \in ViewerCounts}
FilterInputs == UNION {[1..n -> FilterStreams] : n \in 0..MaxInput}
FilterConfigs ==
    {[InitialConfig EXCEPT !.min_viewers = a, !.max_viewers = b] :
        a \in {0, 10}, b \in {20, 100, None}}

\* what get_follower_count answers during the call: unknown for every user,
\* or 7 for every user

\* streams that differ in what the other rules read: the channel name, the
\* broadcaster id (one without any) and the tags (None_tags: "tags": null)
CriteriaStream(name, uid, tags) ==
    [id |-> "s" \o uid, user_id |-> uid, user_name |-> name,
     game_name |-> "game", viewer_count |-> 10, tags |-> tags]
StreamTags == {None_tags, {}, {"en"}, {"fps"}, {"en", "fps"}, {"EN"}}
TagStreams == {CriteriaStream("Alice", "11", t) : t \in StreamTags}
TagConfigs ==
    {[InitialConfig EXCEPT !.required_tags = r, !.exclude_tags = x] :
        r \in {{}, {"en"}, {"en", "fps"}}, x \in {{}, {"fps"}, {"en", "vr"}}}

ChannelStreams ==
    {CriteriaStream("Alice", "11", {}), CriteriaStream("alice", "13", None_tags),
     CriteriaStream("Bob", "12", {"en"}), CriteriaStream("bob", "", {})}
IgnoredLists ==
    {<< >>, <<"alice">>, <<"ALICE">>, <<" Alice">>, <<"12">>, <<"Bob", "11">>}
SecondPassConfigs ==
    {[InitialConfig EXCEPT !.affiliate_or_partner_only = a,
                           !.min_followers = lo, !.max_followers = hi] :
        a \in BOOLEAN, lo \in {0, 7}, hi \in {None, 7}}
ChannelConfigs ==
    {[c EXCEPT !.ignored_channels = l] :
        c \in {d \in SecondPassConfigs : d.min_followers = 0}, l \in IgnoredLists}
TagInputs == UNION {[1..n -> TagStreams] : n \in 0..MaxInput}
ChannelInputs == UNION {[1..n -> ChannelStreams] : n \in 0..MaxInput}

\* the user ids of the model's streams and what the lookups answer for them
FilterUserIds ==
    {s.user_id : s \in FilterStreams \cup TagStreams \cup ChannelStreams} \ {""}
CriteriaUserIds == {"11", "12"}
FollowerCounts == {None, 6, 7, 8}
FilterFollowers ==
    {[u \in FilterUserIds |-> IF u \in CriteriaUserIds THEN f[u] ELSE n] :
        f \in [CriteriaUserIds -> FollowerCounts], n \in {None, 7}}
BroadcasterTypes == {"", "affiliate", "partner"}
FilterTypes ==
    UNION {[D -> BroadcasterTypes] : D \in SUBSET CriteriaUserIds}

NoResult == [raised |-> FALSE, filtered |-> << >>, follower_counts |-> << >>,
             user_ids |-> {}, types_fetched |-> FALSE,
             broadcaster_types |-> << >>]

FilterIdle ==
    /\ filter_pc = "idle"
    /\ filter_input = << >>
    /\ filter_config = InitialConfig
    /\ filter_result = NoResult

\* filter_streams, lines 328-504, from the call to the return or the raise
FilterCall(followers, types) ==
    /\ filter_pc = "called"
    /\ filter_result' = filter_streams(filter_input, filter_config, followers, types)
    /\ filter_pc' = IF filter_result'.raised THEN "raised" ELSE "returned"
    /\ UNCHANGED <<filter_input, filter_config, nonFilterVars>>

(***************************************************************************)
(* filter_streams and format_streams_embed step by step: one step per call *)
(* of get_follower_count, in two successive poll cycles on the same list,  *)
(* the same self.config and the same answers of the API.                   *)
(***************************************************************************)
MaxRuns == 2

\* lines 368-414: pre_filtered_streams
first_pass(streams, cfg) ==
    SelectSeq(streams, LAMBDA s : FirstPass(s, cfg) = "pass")

\* line 385: the first pass ends with a TypeError
first_pass_raises(streams, cfg) ==
    \E k \in DOMAIN streams : FirstPass(streams[k], cfg) = "TypeError"

\* lines 420-424: unique_user_ids
unique_ids(pre_filtered) ==
    {s.user_id : s \in {x \in Range(pre_filtered) : x.user_id # ""}}

\* the ids to look up are those the previous cycle found no count for
lookups_due_Cached(ids, cfg) == ids \ DOMAIN first_run.follower_counts

\* the ids are looked up only when a follower bound is configured
lookups_due_OnlyWithBounds(ids, cfg) ==
    IF cfg.min_followers > 0 \/ cfg.max_followers # None THEN ids ELSE {}

\* lines 426-429: the ids the loop calls get_follower_count for ("always
\* fetch follower counts")
lookups_due(ids, cfg) == ids

\* lines 446-488: the second pass
second_pass(pre_filtered, cfg, counts, types) ==
    SelectSeq(pre_filtered,
              LAMBDA s : /\ ~AffiliateRule(s, cfg, types)
                         /\ ~FollowerRule(s, cfg, counts))

\* lines 636-643: the ids format_streams_embed calls get_follower_count for;
\* given: its argument follower_counts is not None
format_lookup_ids(streams, given) ==
    IF given THEN {} ELSE {s.user_id : s \in Range(streams)} \ {""}

\* line 789: check_and_notify hands the dict of filter_streams, be it empty,
\* to format_streams_embed
format_argument_given == TRUE

LookupStream(name, uid, id, viewers) ==
    [id |-> id, user_id |-> uid, user_name |-> name,
     game_name |-> "game", viewer_count |-> viewers, tags |-> {}]
\* two streams of broadcaster 11, one of them above max_viewers, one of 12
\* and one without a broadcaster id
LookupStreams ==
    {LookupStream("Alice", "11", "s1", 10), LookupStream("Alice", "11", "s2", 50),
     LookupStream("Bob", "12", "s3", 10), LookupStream("bob", "", "s4", 10)}
LookupInputs == UNION {[1..n -> LookupStreams] : n \in 0..MaxInput}
LookupUserIds == {"11", "12"}
LookupConfigs ==
    {[InitialConfig EXCEPT !.ignored_channels = l, !.max_viewers = hi,
                           !.affiliate_or_partner_only = a, !.min_followers = lo] :
        l \in {<< >>, <<"bob">>}, hi \in {20, None}, a \in BOOLEAN, lo \in {0, 7}}
LookupFollowers == [LookupUserIds -> {None, 6}]
LookupTypes == {<< >>, [u \in {"11"} |-> "partner"]}

NoCalls == [u \in LookupUserIds |-> 0]

LookupIdle ==
    /\ lookup_run = 0
    /\ pending_user_ids = {}
    /\ counts_so_far = << >>
    /\ follower_answers = << >>
    /\ types_answers = << >>
    /\ follower_calls = << >>
    /\ format_calls = << >>
    /\ first_run = NoResult
    /\ ledger_op = "none"
    /\ format_pc = "idle"
    /\ format_streams = << >>
    /\ format_followers = << >>
    /\ format_embeds = << >>
    /\ format_values = << >>

apiVarsButToken ==
    <<api_op, api_pc, api_arg, api_result, twitch_credentials, batch_i, cursor,
      page_num, all_streams, seen_stream_ids, broadcaster_types_map, response,
      request, settled, request_failed, failed_ids>>

\* lines 336-424: the first pass and the set of ids
first_pass_step ==
    /\ filter_pc = "called"
    /\ IF first_pass_raises(filter_input, filter_config)
       THEN /\ filter_pc' = "raised"
            /\ filter_result' = [NoResult EXCEPT !.raised = TRUE]
            /\ UNCHANGED pending_user_ids
       ELSE /\ filter_pc' = "lookups"
            /\ pending_user_ids' =
                  lookups_due(unique_ids(first_pass(filter_input, filter_config)),
                              filter_config)
            /\ UNCHANGED filter_result
    /\ UNCHANGED <<filter_input, filter_config, lookup_run, counts_so_far,
                   follower_answers, types_answers, follower_calls, format_calls,
                   first_run, mainVars,
                   apiVars, storeVars, formatVars>>

\* lines 429-435: one iteration of the loop over unique_user_ids, in the
\* order the set gives; get_follower_count may have renewed the token
\* (refreshed) before it got its answer
lookup_follower(u, refreshed) ==
    /\ filter_pc = "lookups"
    /\ u \in pending_user_ids
    /\ follower_calls' = [follower_calls EXCEPT ![u] = @ + 1]
    /\ counts_so_far' =
          IF follower_answers[u] # None
          THEN [v \in DOMAIN counts_so_far \cup {u} |->
                   IF v = u THEN follower_answers[u] ELSE counts_so_far[v]]
          ELSE counts_so_far
    /\ pending_user_ids' = pending_user_ids \ {u}
    /\ twitch_token' = IF refreshed /\ twitch_token < MaxTokens
                       THEN token_after("token", twitch_token) ELSE twitch_token
    /\ twitch_headers' = IF twitch_token' # twitch_token
                         THEN headers_for(twitch_token') ELSE twitch_headers
    /\ UNCHANGED <<filterVars, lookup_run, follower_answers, types_answers,
                   format_calls, first_run, mainVars,
                   apiVarsButToken, storeVars,
                   formatVars>>

\* lines 437-504: the batch lookup of the types, the second pass, the return
second_pass_step ==
    /\ filter_pc = "lookups"
    /\ pending_user_ids = {}
    /\ LET pre_filtered == first_pass(filter_input, filter_config)
           fetched == /\ unique_ids(pre_filtered) # {}
                      /\ filter_config.affiliate_or_partner_only
           types == IF fetched THEN types_answers ELSE << >>
       IN  filter_result' =
             [raised |-> FALSE,
              filtered |-> second_pass(pre_filtered, filter_config,
                                       counts_so_far, types),
              follower_counts |-> counts_so_far,
              user_ids |-> {u \in LookupUserIds : follower_calls[u] > 0},
              types_fetched |-> fetched,
              broadcaster_types |-> types]
    /\ filter_pc' = "returned"
    /\ UNCHANGED <<filter_input, filter_config, lookupVars, mainVars,
                   apiVars, storeVars, formatVars>>

\* check_and_notify, lines 769-789, with nothing notified before: every
\* returned stream is new, and format_streams_embed is called when there is one
format_step ==
    /\ filter_pc = "returned"
    /\ format_calls' =
          IF filter_result.filtered # << >>
          THEN [u \in LookupUserIds |->
                  IF u \in format_lookup_ids(filter_result.filtered,
                                             format_argument_given)
                  THEN format_calls[u] + 1 ELSE format_calls[u]]
          ELSE format_calls
    /\ filter_pc' = "done"
    /\ UNCHANGED <<filter_input, filter_config, filter_result, lookup_run,
                   pending_user_ids, counts_so_far, follower_answers,
                   types_answers, follower_calls, first_run, mainVars,
                   apiVars, storeVars, formatVars>>

\* monitoring_loop, lines 1033-1037: the next cycle, on the same list, the
\* same config and the same answers; an exception of check_and_notify is
\* not caught there and ends the loop
next_cycle ==
    /\ filter_pc = "done"
    /\ lookup_run < MaxRuns
    /\ lookup_run' = lookup_run + 1
    /\ first_run' = filter_result
    /\ filter_pc' = "called"
    /\ filter_result' = NoResult
    /\ counts_so_far' = << >>
    /\ follower_calls' = NoCalls
    /\ format_calls' = NoCalls
    /\ UNCHANGED <<filter_input, filter_config, pending_user_ids,
                   follower_answers, types_answers, mainVars,
                   apiVars, storeVars, formatVars>>

\* the state after construction, no call of the API client in progress
Init ==
    /\ InitMain
    /\ ApiIdle
    /\ twitch_token = 1
    /\ twitch_headers = headers_at_init(twitch_token)
    /\ twitch_credentials = TRUE
    /\ FilterIdle
    /\ LookupIdle

\* a command that does not save the config
save_config_Skipped(file, cfg, outcome) == file

\* TwitchMonitor.save_config: open(path, 'w') and json.dump, nothing caught
save_config(file, cfg, outcome) ==
    write_file(file, cfg, InitialConfig, outcome)

taskVars == <<pc, filtered_streams, new_streams, embeds, embed_i, sent_count>>
cycleHistory == <<cycle_ledger, cycle_file, failed_streams, unit_failures,
                  pauses, phases>>
deliveryHistory == <<delivered, file_at_start>>
ledgerVars == <<notified_streams, ledger_file>>
configVars == <<config, config_file>>

\* start_monitoring, lines 962-990 and 1061-1062: the credentials are
\* configured, the client connects
StartMonitoring ==
    /\ mode = "menu"
    /\ config.game_ids # << >>
    /\ mode' = "monitoring"
    /\ UNCHANGED <<configVars, ledgerVars, taskVars, cycleHistory,
                   deliveryHistory, ignore_args, cycles, restarts>>
    /\ UNCHANGED nonMainVars

\* on_ready, lines 1042-1045: every ready event creates a monitoring_loop task
on_ready(t) ==
    /\ mode = "monitoring"
    /\ ~Running
    /\ pc[t] = "none"
    /\ \A u \in Tasks : u < t => pc[u] # "none"
    /\ pc' = [pc EXCEPT ![t] = "start"]
    /\ UNCHANGED <<mode, configVars, ledgerVars, filtered_streams, new_streams,
                   embeds, embed_i, sent_count, cycleHistory, deliveryHistory,
                   ignore_args, cycles, restarts>>
    /\ UNCHANGED nonMainVars

\* a cycle that does not consult the ledger
NewStreams_All(filtered, notified) == filtered

\* check_and_notify lines 772-779: the filtered streams not yet notified
NewStreams(filtered, notified) ==
    SelectSeq(filtered, LAMBDA s : get_stream_id(s) \notin notified)

\* a cycle that always formats and dispatches
has_new_streams_Always(new) == TRUE

\* line 786: the cycle has streams to announce
has_new_streams(new) == new # << >>

\* lines 747-789: the phases a cycle enters before its first await: none
\* without games (line 747-749), the fetch (get_streams, line 757), the
\* filter (filter_streams and the ledger, lines 769-779, where an exception
\* ends the cycle) and, with new streams, the formatter (line 789)
cycle_phases(game_ids, raised, new) ==
    IF game_ids = << >> THEN << >>
    ELSE <<"Fetching", "Filtering">>
            \o (IF ~raised /\ has_new_streams(new) THEN <<"Formatting">>
                ELSE << >>)

\* monitoring_loop line 1034-1035 and check_and_notify lines 745-789: the
\* task leaves wait_until_ready or its sleep, fetches, filters, removes the
\* streams already notified and formats the new ones
CycleStart(t, streams, followers) ==
    /\ mode = "monitoring"
    /\ ~Running
    /\ pc[t] \in {"start", "sleep"}
    /\ cycles < MaxCycles
    /\ cycles' = cycles + 1
    /\ LET fetched == IF config.game_ids = << >> THEN << >> ELSE streams
           result == filter_streams(fetched, config, followers, << >>)
           new == NewStreams(result.filtered, notified_streams)
       IN  /\ phases' = [phases EXCEPT ![t] =
                            cycle_phases(config.game_ids, result.raised, new)]
           /\ pc' = [pc EXCEPT ![t] = IF result.raised THEN "raised" ELSE "checked"]
           /\ filtered_streams' = [filtered_streams EXCEPT ![t] = result.filtered]
           /\ new_streams' = [new_streams EXCEPT ![t] = new]
           /\ embeds' = [embeds EXCEPT ![t] =
                            format_streams_embed(new, result.follower_counts)]
    /\ embed_i' = [embed_i EXCEPT ![t] = 0]
    /\ sent_count' = [sent_count EXCEPT ![t] = 0]
    /\ cycle_ledger' = [cycle_ledger EXCEPT ![t] = notified_streams]
    /\ cycle_file' = [cycle_file EXCEPT ![t] = ledger_file]
    /\ unit_failures' = [unit_failures EXCEPT ![t] = 0]
    /\ pauses' = [pauses EXCEPT ![t] = 0]
    /\ UNCHANGED <<mode, configVars, ledgerVars, failed_streams,
                   deliveryHistory, ignore_args, restarts>>
    /\ UNCHANGED nonMainVars

\* check_and_notify lines 786-802 and 814-823, monitoring_loop lines
\* 1036-1037: with new streams the task awaits the send of the first embed,
\* without it returns and sleeps
CycleContinue(t) ==
    /\ pc[t] = "checked"
    /\ IF has_new_streams(new_streams[t])
       THEN /\ pc' = [pc EXCEPT ![t] = "sending"]
            /\ phases' = [phases EXCEPT ![t] = Append(@, "Dispatching")]
            /\ UNCHANGED <<filtered_streams, new_streams, embeds, embed_i,
                           sent_count, cycle_ledger, cycle_file,
                           failed_streams, unit_failures, pauses>>
       ELSE /\ pc' = [pc EXCEPT ![t] = "sleep"]
            /\ phases' = [phases EXCEPT ![t] = Append(@, "Sleeping")]
            /\ NoLocals(t)
            /\ failed_streams' = [failed_streams EXCEPT ![t] = << >>]
            /\ UNCHANGED <<unit_failures, pauses>>
    /\ UNCHANGED <<mode, configVars, ledgerVars, deliveryHistory, ignore_args,
                   cycles, restarts>>
    /\ UNCHANGED nonMainVars

\* a commit rule that accepts a partial dispatch
CommitAllowed_Any(sent, n_embeds) == sent > 0

\* lines 807-813: the commit rule at the end of the dispatch loop
CommitAllowed(sent, n_embeds) == sent = n_embeds

\* a commit that takes the keys back when the save failed
marked_after_commit_RolledBack(notified, keys, outcome) ==
    IF outcome = "ok" THEN notified \cup keys ELSE notified

\* lines 808-810: the keys are added before save_notified_streams is called,
\* and whatever the save does is swallowed there (lines 109-110)
marked_after_commit(notified, keys, outcome) == notified \cup keys

\* a rate-limit sleep before every seventh embed
pause_before_EverySixth(i) == i > 0 /\ i % 6 = 0

\* line 798: the rate-limit sleep comes before the embed of index i (from 0)
pause_before(i) == i > 0 /\ i % 5 = 0

\* a loop that sends an embed again when its send failed
next_embed_RetryFailed(i, ok) == IF ok THEN i + 1 ELSE i

\* lines 797 and 802-805: the loop goes on to the next embed whatever
\* send_discord_notification returned (i is the index of the embed sent)
next_embed(i, ok) == i + 1

\* the keys of a list of streams
StreamKeys(streams) == {get_stream_id(s) : s \in Range(streams)}

\* check_and_notify lines 802-813, monitoring_loop lines 1036-1037: the send
\* of embed embed_i returns (ok: send_discord_notification returned True, the
\* message is in the channel).  The loop goes on to its next await: the
\* rate-limit sleep, the next send, or, after the last embed and the commit
\* of the ledger, the sleep of the monitoring loop.
SendDone(t, ok, outcome) ==
    /\ pc[t] = "sending"
    /\ ~Running
    /\ LET embed == embeds[t][embed_i[t] + 1]
           keys == {get_stream_id(s) : s \in EmbedStreams(embed)}
           sent == IF ok THEN sent_count[t] + 1 ELSE sent_count[t]
           i == next_embed(embed_i[t], ok)
       IN  /\ delivered' = IF ok
                           THEN [k \in DOMAIN delivered |->
                                    IF k \in keys THEN Min(delivered[k] + 1, 2)
                                    ELSE delivered[k]]
                           ELSE delivered
           /\ unit_failures' = [unit_failures EXCEPT ![t] = IF ok THEN @ ELSE @ + 1]
           /\ IF i < Len(embeds[t])
              THEN /\ pc' = [pc EXCEPT ![t] = IF pause_before(i)
                                              THEN "rate_sleep" ELSE "sending"]
                   /\ pauses' = [pauses EXCEPT ![t] =
                                    IF pause_before(i) THEN @ + 1 ELSE @]
                   /\ UNCHANGED phases
                   /\ embed_i' = [embed_i EXCEPT ![t] = i]
                   /\ sent_count' = [sent_count EXCEPT ![t] = sent]
                   /\ UNCHANGED <<filtered_streams, new_streams, embeds,
                                  ledgerVars, cycle_ledger, cycle_file,
                                  failed_streams>>
              ELSE /\ IF CommitAllowed(sent, Len(embeds[t]))
                      THEN /\ notified_streams' =
                                marked_after_commit(notified_streams,
                                    StreamKeys(new_streams[t]), outcome)
                           /\ ledger_file' = save_notified_streams(
                                ledger_file, notified_streams', outcome)
                           /\ failed_streams' = [failed_streams EXCEPT ![t] = << >>]
                      ELSE /\ UNCHANGED ledgerVars
                           /\ failed_streams' =
                                [failed_streams EXCEPT ![t] = new_streams[t]]
                   /\ pc' = [pc EXCEPT ![t] = "sleep"]
                   /\ UNCHANGED pauses
                   /\ phases' = [phases EXCEPT ![t] = Append(@, "Sleeping")]
                   /\ NoLocals(t)
    /\ UNCHANGED <<mode, configVars, file_at_start, ignore_args, cycles, restarts>>
    /\ UNCHANGED nonMainVars

\* lines 798-802: asyncio.sleep(5) returns, the task awaits the next send
RateLimitDone(t) ==
    /\ pc[t] = "rate_sleep"
    /\ ~Running
    /\ pc' = [pc EXCEPT ![t] = "sending"]
    /\ UNCHANGED <<mode, configVars, ledgerVars, filtered_streams, new_streams,
                   embeds, embed_i, sent_count, cycleHistory, deliveryHistory,
                   ignore_args, cycles, restarts>>
    /\ UNCHANGED nonMainVars

\* ignore_command, lines 992-1015.  The list is appended to in place; an
\* exception of save_config ends the command after the append; load_config
\* returns what save_config wrote.
\* cap bounds the length of the list.
ignore_command_upto(channel, outcome, cap) ==
    /\ mode = "monitoring"
    /\ ~Running
    /\ LET ignored_channels == config.ignored_channels
           channel_lower == str_strip(str_lower(channel))
       IN  IF \E k \in DOMAIN ignored_channels :
                    str_lower(ignored_channels[k]) = channel_lower
           THEN UNCHANGED configVars
           ELSE /\ Len(ignored_channels) < cap
                /\ config' = [config EXCEPT !.ignored_channels =
                                Append(ignored_channels, channel)]
                /\ config_file' = save_config(config_file, config', outcome)
    /\ ignore_args' = ignore_args \cup {channel}
    /\ UNCHANGED <<mode, ledgerVars, taskVars, cycleHistory, deliveryHistory,
                   cycles, restarts>>
    /\ UNCHANGED nonMainVars

ignore_command(channel, outcome) ==
    ignore_command_upto(channel, outcome, MaxIgnored)

\* main, lines 1047-1059, and asyncio.run: the client stops, the tasks are
\* cancelled at their await, start_monitoring returns to the menu
Shutdown ==
    /\ mode = "monitoring"
    /\ mode' = "menu"
    /\ pc' = [t \in Tasks |-> "none"]
    /\ filtered_streams' = [t \in Tasks |-> << >>]
    /\ new_streams' = [t \in Tasks |-> << >>]
    /\ embeds' = [t \in Tasks |-> << >>]
    /\ embed_i' = [t \in Tasks |-> 0]
    /\ sent_count' = [t \in Tasks |-> 0]
    /\ failed_streams' = [t \in Tasks |-> << >>]
    /\ cycle_ledger' = [t \in Tasks |-> {}]
    /\ cycle_file' = [t \in Tasks |-> NoFile]
    /\ unit_failures' = [t \in Tasks |-> 0]
    /\ pauses' = [t \in Tasks |-> 0]
    /\ phases' = [t \in Tasks |-> << >>]
    /\ UNCHANGED <<configVars, ledgerVars, deliveryHistory, ignore_args,
                   cycles, restarts>>
    /\ UNCHANGED nonMainVars

\* The process ends (menu choice 5, an uncaught exception, a kill) and is
\* started again: __init__, lines 21-46, with load_config on a valid file
Restart ==
    /\ restarts < MaxRestarts
    /\ restarts' = restarts + 1
    /\ config_file.state = "valid"
    /\ mode' = "menu"
    /\ config' = config_file.content
    /\ notified_streams' = load_notified_streams(ledger_file)
    /\ file_at_start' = ledger_file
    /\ ignore_args' = {}
    /\ cycles' = 0
    /\ pc' = [t \in Tasks |-> "none"]
    /\ filtered_streams' = [t \in Tasks |-> << >>]
    /\ new_streams' = [t \in Tasks |-> << >>]
    /\ embeds' = [t \in Tasks |-> << >>]
    /\ embed_i' = [t \in Tasks |-> 0]
    /\ sent_count' = [t \in Tasks |-> 0]
    /\ failed_streams' = [t \in Tasks |-> << >>]
    /\ cycle_ledger' = [t \in Tasks |-> {}]
    /\ cycle_file' = [t \in Tasks |-> NoFile]
    /\ unit_failures' = [t \in Tasks |-> 0]
    /\ pauses' = [t \in Tasks |-> 0]
    /\ phases' = [t \in Tasks |-> << >>]
    /\ UNCHANGED <<config_file, ledger_file, delivered>>
    /\ UNCHANGED nonMainVars

\* The steps of a run in which no cycle has more than five embeds (an answer
\* of the API holds at most MaxStreams streams): no rate-limit sleep begins.
\* SpecBurst below has the cycles with more embeds.
Next ==
    \/ StartMonitoring
    \/ \E t \in Tasks : on_ready(t)
    \/ \E t \in Tasks, streams \in ApiResults, followers \in MainFollowers :
            CycleStart(t, streams, followers)
    \/ \E t \in Tasks : CycleContinue(t)
    \/ \E t \in Tasks, ok \in BOOLEAN, o \in WriteOutcomes : SendDone(t, ok, o)
    \/ \E ch \in IgnoreArgs, o \in WriteOutcomes : ignore_command(ch, o)
    \/ Shutdown
    \/ Restart

Spec == Init /\ [][Next]_vars

(***************************************************************************)
(* A session with one monitoring_loop task in which the API returns        *)
(* MaxBurst streams of different games, so that a cycle has more than five *)
(* embeds and the rate-limit sleep of check_and_notify begins.             *)
(***************************************************************************)
MaxBurst == 11

BurstStream(k) ==
    [id |-> ToString(k), user_id |-> ToString(20 + k),
     user_name |-> "user" \o ToString(20 + k),
     game_name |-> "game" \o ToString(k), viewer_count |-> 5, tags |-> {}]

BurstStreams == [k \in 1..MaxBurst |-> BurstStream(k)]
BurstFollowers == [u \in {BurstStreams[k].user_id : k \in 1..MaxBurst} |-> None]

InitBurst == Init /\ ledger_file = NoFile

NextBurst ==
    \/ StartMonitoring
    \/ on_ready(1)
    \/ CycleStart(1, BurstStreams, BurstFollowers)
    \/ CycleContinue(1)
    \/ \E ok \in BOOLEAN, o \in WriteOutcomes : SendDone(1, ok, o)
    \/ RateLimitDone(1)
    \/ Shutdown

SpecBurst == InitBurst /\ [][NextBurst]_vars

(***************************************************************************)
(* The monitoring loop of one task under fair scheduling: a timer of the   *)
(* event loop expires and an awaited send returns, so a task that can take *)
(* its next step takes it.  The shutdown may come or not.  config.json may *)
(* hold null as max_viewers (load_config keeps the value of a present key, *)
(* lines 55-56).                                                           *)
(***************************************************************************)
LiveConfigs == {InitialConfig, [InitialConfig EXCEPT !.max_viewers = None]}

InitLive ==
    /\ config \in LiveConfigs
    /\ config_file = [state |-> "valid", content |-> config]
    /\ InitButFiles
    /\ InitLoadedLedger
    /\ ApiIdle
    /\ twitch_token = 1
    /\ twitch_headers = headers_at_init(twitch_token)
    /\ twitch_credentials = TRUE
    /\ FilterIdle
    /\ LookupIdle

\* the steps of the task created by the first ready event
LoopBegins == on_ready(1)
LoopCycle ==
    \E streams \in ApiResults, followers \in MainFollowers :
        CycleStart(1, streams, followers)
LoopContinues == CycleContinue(1)
LoopSendReturns == \E ok \in BOOLEAN, o \in WriteOutcomes : SendDone(1, ok, o)

NextLive ==
    \/ StartMonitoring
    \/ LoopBegins
    \/ LoopCycle
    \/ LoopContinues
    \/ LoopSendReturns
    \/ Shutdown

LiveFairness ==
    /\ WF_vars(LoopBegins)
    /\ WF_vars(LoopCycle)
    /\ WF_vars(LoopContinues)
    /\ WF_vars(LoopSendReturns)

SpecLive == InitLive /\ [][NextLive]_vars /\ LiveFairness

(***************************************************************************)
(* The interactive menu with its two commands that change the watch list,  *)
(* followed by monitoring sessions of one task with the ignore command.    *)
(* save_config catches nothing: an exception of a menu command ends the    *)
(* process (mode "exited").                                                *)
(***************************************************************************)
MaxGames == 2

\* the ids of the games the search offers
MenuGames == {"509658", "33214"}

\* search_and_add_game, lines 845-887: the selected game is appended and the
\* config saved, unless the game is watched already
add_game(game_id, outcome) ==
    /\ mode = "menu"
    /\ IF \E k \in DOMAIN config.game_ids : config.game_ids[k] = game_id
       THEN UNCHANGED <<mode, configVars>>
       ELSE /\ Len(config.game_ids) < MaxGames
            /\ config' = [config EXCEPT !.game_ids = Append(@, game_id)]
            /\ config_file' = save_config(config_file, config', outcome)
            /\ mode' = IF outcome = "ok" THEN "menu" ELSE "exited"
    /\ UNCHANGED <<ledgerVars, taskVars, cycleHistory, deliveryHistory,
                   ignore_args, cycles, restarts>>
    /\ UNCHANGED nonMainVars

\* the list without its element at index (from 1): game_ids.pop(index)
list_pop(list, index) ==
    SubSeq(list, 1, index - 1) \o SubSeq(list, index + 1, Len(list))

\* remove_game, lines 939-960: the selected game is popped from the list and
\* the config saved
remove_game(index, outcome) ==
    /\ mode = "menu"
    /\ config.game_ids # << >>
    /\ index \in 1..Len(config.game_ids)
    /\ config' = [config EXCEPT !.game_ids = list_pop(@, index)]
    /\ config_file' = save_config(config_file, config', outcome)
    /\ mode' = IF outcome = "ok" THEN "menu" ELSE "exited"
    /\ UNCHANGED <<ledgerVars, taskVars, cycleHistory, deliveryHistory,
                   ignore_args, cycles, restarts>>
    /\ UNCHANGED nonMainVars

\* the game a stream of the API belongs to (its game_id)
game_id_of(stream) == IF stream.id = "1" THEN "509658" ELSE "33214"

\* get_streams answers with streams of the games it was asked for
StreamsOfGames(game_ids) ==
    {streams \in ApiResults :
        \A k \in DOMAIN streams :
            \E g \in DOMAIN game_ids : game_ids[g] = game_id_of(streams[k])}

MenuCycle ==
    \E streams \in StreamsOfGames(config.game_ids), followers \in MainFollowers :
        CycleStart(1, streams, followers)

NextMenu ==
    \/ \E g \in MenuGames, o \in WriteOutcomes : add_game(g, o)
    \/ \E i \in 1..MaxGames, o \in WriteOutcomes : remove_game(i, o)
    \/ StartMonitoring
    \/ on_ready(1)
    \/ MenuCycle
    \/ CycleContinue(1)
    \/ \E ok \in BOOLEAN, o \in WriteOutcomes : SendDone(1, ok, o)
    \/ \E ch \in IgnoreArgs, o \in WriteOutcomes : ignore_command(ch, o)
    \/ Shutdown
    \/ Restart

SpecMenu == Init /\ [][NextMenu]_vars

(***************************************************************************)
(* get_streams against a server with a fixed catalogue: a request for a    *)
(* page is answered with that page or, at its first sending, with 401; the *)
(* token is then found valid or is renewed, and the second sending is      *)
(* answered with the page.                                                 *)
(***************************************************************************)
\* the streams the server lists for a game; the listing of game 2 repeats a
\* stream of game 1, and game 101 lists a stream of game 2 with another
\* viewer count
GameStreams(game_id) ==
    CASE game_id = "1" -> <<[user_id |-> "1", id |-> "12", viewer_count |-> 5],
                            [user_id |-> "11", id |-> "2", viewer_count |-> 5]>>
      [] game_id = "2" -> <<[user_id |-> "1", id |-> "2", viewer_count |-> 5],
                            [user_id |-> "1", id |-> "12", viewer_count |-> 5]>>
      [] game_id = "3" -> <<[user_id |-> "11", id |-> "12", viewer_count |-> 5]>>
      [] game_id = ToString(MaxIds) ->
                          <<[user_id |-> "1", id |-> "2", viewer_count |-> 6],
                            [user_id |-> "11", id |-> "2", viewer_count |-> 5]>>
      [] OTHER -> << >>

ListedGames == <<"1", "2", "3", ToString(MaxIds)>>

\* the streams of the games of a batch
RECURSIVE Listing(_, _)
Listing(batch, k) ==
    IF k > Len(ListedGames) THEN << >>
    ELSE (IF ListedGames[k] \in Range(batch) THEN GameStreams(ListedGames[k])
          ELSE << >>) \o Listing(batch, k + 1)

\* the cursor the server returns with page k, and the page a cursor asks for
CursorOf(k) == "c" \o ToString(k)
PageAfter(after) ==
    IF after = NoCursor THEN 1
    ELSE 1 + CHOOSE k \in 1..MaxIds : CursorOf(k) = after

\* lines 237-253 and 287-289: the parameters of a request, and the answer of
\* the server to them: MaxPageLen streams of the listing, and a cursor while
\* streams are left
current_params(game_ids, i, after) == [batch |-> Batch(game_ids, i), after |-> after]

ServerPage(params) ==
    LET listing == Listing(params.batch, 1)
        k == PageAfter(params.after)
    IN  [status |-> 200,
         data |-> SubSeq(listing, (k - 1) * MaxPageLen + 1,
                         Min(k * MaxPageLen, Len(listing))),
         cursor |-> IF k * MaxPageLen < Len(listing) THEN CursorOf(k) ELSE NoCursor,
         total |-> 0]

\* watch lists of no game, of one, two and three games, of one full batch
\* and of two batches
WatchLists == IdLists \cup {IdList(2), IdList(3), IdList(BatchSize)}

InitPages ==
    /\ InitMain
    /\ ledger_file = NoFile
    /\ ApiIdle
    /\ twitch_token = 1
    /\ twitch_headers = headers_at_init(twitch_token)
    /\ twitch_credentials = TRUE
    /\ FilterIdle
    /\ LookupIdle

NextPages ==
    \/ \E game_ids \in WatchLists : get_streams(game_ids)
    \/ Respond(ServerPage(current_params(api_arg, batch_i, cursor)))
    \/ Respond(ErrorResponse(401))
    \/ validate_and_refresh_token(200)
    \/ twitch_token < MaxTokens /\ validate_and_refresh_token(401)
    \/ get_app_access_token("token")
    \/ Retry(ServerPage(current_params(api_arg, batch_i, cursor)))
    \/ Return

SpecPages == InitPages /\ [][NextPages]_vars

(***************************************************************************)
(* The API client on its own: calls of get_streams, get_follower_count and *)
(* get_broadcaster_types_batch with any answers of the server.             *)
(***************************************************************************)
InitApi ==
    /\ InitMain
    /\ ledger_file = NoFile
    /\ ApiIdle
    /\ twitch_token \in {NoToken, 1}
    /\ twitch_headers = headers_at_init(twitch_token)
    /\ twitch_credentials \in BOOLEAN
    /\ FilterIdle
    /\ LookupIdle

NextApi ==
    \/ \E game_ids \in IdLists : get_streams(game_ids)
    \/ \E user_id \in {"", "11"} : get_follower_count(user_id)
    \/ \E user_ids \in IdLists : get_broadcaster_types_batch(user_ids)
    \/ \E resp \in Responses : Respond(resp)
    \/ \E status \in {200, 401, 500, NetworkError} : validate_and_refresh_token(status)
    \/ \E answer \in TokenAnswers : get_app_access_token(answer)
    \/ \E resp \in Responses : Retry(resp)
    \/ Return

SpecApi == InitApi /\ [][NextApi]_vars

\* Every request that was sent ends, with an answer or with an exception of
\* the requests library, and the synchronous code between two requests runs
\* on: the steps of a call in progress are taken; that a new call begins or
\* that the caller goes on after the return is not required.
ApiFairness ==
    /\ WF_vars(\E resp \in Responses : Respond(resp))
    /\ WF_vars(\E status \in {200, 401, 500, NetworkError} :
                  validate_and_refresh_token(status))
    /\ WF_vars(\E answer \in TokenAnswers : get_app_access_token(answer))
    /\ WF_vars(\E resp \in Responses : Retry(resp))

\* calls of get_streams alone
NextStreams ==
    \/ \E game_ids \in IdLists : get_streams(game_ids)
    \/ \E resp \in Responses : Respond(resp)
    \/ \E status \in {200, 401, 500, NetworkError} : validate_and_refresh_token(status)
    \/ \E answer \in TokenAnswers : get_app_access_token(answer)
    \/ \E resp \in Responses : Retry(resp)
    \/ Return

SpecApiLive == InitApi /\ [][NextStreams]_vars /\ ApiFairness

(***************************************************************************)
(* The filter on its own.                                                  *)
(***************************************************************************)
InitFilter ==
    /\ InitMain
    /\ ledger_file = NoFile
    /\ ApiIdle
    /\ twitch_token = 1
    /\ twitch_headers = headers_at_init(twitch_token)
    /\ twitch_credentials = TRUE
    /\ filter_pc = "called"
    /\ \/ filter_input \in FilterInputs /\ filter_config \in FilterConfigs
       \/ filter_input \in TagInputs /\ filter_config \in TagConfigs
       \/ filter_input \in ChannelInputs
             /\ filter_config \in ChannelConfigs \cup SecondPassConfigs
    /\ filter_result = NoResult
    /\ LookupIdle

NextFilter ==
    \E followers \in FilterFollowers, types \in FilterTypes :
        FilterCall(followers, types)

SpecFilter == InitFilter /\ [][NextFilter]_vars

(***************************************************************************)
(* The formatter on its own, called with lists of streams of two games in  *)
(* three orders: all of game A first, all of game B first, or alternating  *)
(* from A until one game has no stream left.                               *)
(***************************************************************************)
MaxGameA == 23
MaxGameB == 11

\* the k-th stream of a list
FormatStream(game_name, k) ==
    [id |-> ToString(k), user_id |-> ToString(100 + k),
     user_name |-> "user" \o ToString(k), game_name |-> game_name,
     viewer_count |-> 5, tags |-> {}]

GameAt(a, b, order, k) ==
    CASE order = "AB"  -> IF k <= a THEN "A" ELSE "B"
      [] order = "BA"  -> IF k <= b THEN "B" ELSE "A"
      [] order = "mix" -> IF k <= 2 * Min(a, b)
                          THEN (IF k % 2 = 1 THEN "A" ELSE "B")
                          ELSE (IF a > b THEN "A" ELSE "B")

FormatInput(a, b, order) == [k \in 1..(a + b) |-> FormatStream(GameAt(a, b, order, k), k)]

FormatInputs ==
    {FormatInput(a, b, order) :
        a \in 0..MaxGameA, b \in 0..MaxGameB, order \in {"AB", "BA", "mix"}}

\* n characters
RECURSIVE Characters(_)
Characters(n) ==
    IF n = 0 THEN ""
    ELSE IF n % 2 = 0
         THEN LET half == Characters(n \div 2) IN half \o half
         ELSE Characters(n - 1) \o (IF n % 3 = 0 THEN "a" ELSE "b")

\* streams with a title, of lengths up to MaxTitle; with the user name
\* "user1" and 5 viewers the rendered value has 48 characters more
MaxTitle == 1100
TitleLengths == {0, 1} \cup ((MaxTitle - 200)..MaxTitle)
TitledStream(n) ==
    [id |-> "1", user_id |-> "101", user_name |-> "user1", game_name |-> "A",
     viewer_count |-> 5, tags |-> {}, title |-> Characters(n)]
TitleInputs == {<<TitledStream(n)>> : n \in TitleLengths}

\* the dict of filter_streams: no count, or a count for the first two streams
FormatFollowers == {<< >>, [u \in {"101", "102"} |-> 7]}

\* format_streams_embed, lines 620-712, from the call to the return
FormatCall ==
    /\ format_pc = "called"
    /\ format_embeds' = format_streams_embed(format_streams, format_followers)
    /\ format_values' = FieldValues(format_embeds')
    /\ format_pc' = "returned"
    /\ UNCHANGED <<format_streams, format_followers, nonFormatVars>>

InitFormat ==
    /\ InitMain
    /\ ledger_file = NoFile
    /\ ApiIdle
    /\ twitch_token = 1
    /\ twitch_headers = headers_at_init(twitch_token)
    /\ twitch_credentials = TRUE
    /\ FilterIdle
    /\ lookup_run = 0
    /\ pending_user_ids = {}
    /\ counts_so_far = << >>
    /\ follower_answers = << >>
    /\ types_answers = << >>
    /\ follower_calls = << >>
    /\ format_calls = << >>
    /\ first_run = NoResult
    /\ ledger_op = "none"
    /\ format_pc = "called"
    /\ format_streams \in FormatInputs \cup TitleInputs
    /\ format_followers \in FormatFollowers
    /\ format_embeds = << >>
    /\ format_values = << >>

NextFormat == FormatCall

SpecFormat == InitFormat /\ [][NextFormat]_vars

(***************************************************************************)
(* The ledger on its own, from a ledger file of any shape: construction    *)
(* reads the file, a cycle that sent every embed adds its keys and saves.  *)
(***************************************************************************)
MaxListLen == 3

LedgerKeys == {"11_1", "12_2"}
LedgerLists == UNION {[1..n -> LedgerKeys] : n \in 0..MaxListLen}
\* what notified_streams.json can hold when the program starts
LedgerFiles ==
    {[state |-> st, content |-> << >>] :
        st \in {"missing", "invalid", "not_object", "no_key",
                 "null_value", "number_value"}}
    \cup {[state |-> "valid", content |-> l] : l \in LedgerLists}
    \cup {[state |-> "string_value", content |-> c] : c \in {<< >>, <<"a", "b">>}}

\* the lists that list(self.notified_streams) can be
Listings(S) == {l \in [1..Cardinality(S) -> S] : set_of(l) = S}

\* __init__, line 46, at a start of the program
load_at_start ==
    /\ notified_streams' = load_notified_streams(ledger_file)
    /\ file_at_start' = ledger_file
    /\ ledger_op' = "loaded"
    /\ UNCHANGED <<ledger_file, mode, configVars, taskVars, cycleHistory,
                   delivered, ignore_args, cycles, restarts>>
    /\ UNCHANGED <<apiVars, filterVars, lookupVars, formatVars>>

\* check_and_notify, lines 807-810: the keys of the new streams are added
\* and the ledger is saved
flush(keys, listed, outcome) ==
    /\ ledger_op # "none"
    /\ keys # {}
    /\ notified_streams' = notified_streams \cup keys
    /\ listed \in Listings(notified_streams')
    /\ ledger_file' = save_notified_streams_as(ledger_file, listed, outcome)
    /\ ledger_op' = IF outcome = "ok" THEN "flushed" ELSE "flush_failed"
    /\ UNCHANGED <<mode, configVars, taskVars, cycleHistory, deliveryHistory,
                   ignore_args, cycles, restarts>>
    /\ UNCHANGED <<apiVars, filterVars, lookupVars, formatVars>>

InitLedger ==
    /\ InitButLedger
    /\ ledger_file \in LedgerFiles
    /\ notified_streams = {}
    /\ file_at_start = ledger_file
    /\ ApiIdle
    /\ twitch_token = 1
    /\ twitch_headers = headers_at_init(twitch_token)
    /\ twitch_credentials = TRUE
    /\ FilterIdle
    /\ LookupIdle

NextLedger ==
    \/ load_at_start
    \/ \E keys \in SUBSET LedgerKeys, o \in WriteOutcomes :
          \E listed \in Listings(notified_streams \cup keys) : flush(keys, listed, o)

SpecLedger == InitLedger /\ [][NextLedger]_vars

(***************************************************************************)
(* load_config on its own: __init__ with a config.json that holds some of  *)
(* the recognized keys, with their default or with another value, and      *)
(* possibly a key the program does not know.                               *)
(***************************************************************************)
\* lines 55-70: the defaults of the recognized keys
ConfigDefaults ==
    [max_viewers |-> 20, min_viewers |-> 0,
     max_followers |-> None, min_followers |-> 0,
     game_ids |-> << >>, required_tags |-> << >>, exclude_tags |-> << >>,
     ignored_channels |-> << >>, languages |-> << >>,
     affiliate_or_partner_only |-> FALSE,
     search_interval_minutes |-> 30,
     twitch_client_id |-> "", twitch_client_secret |-> "",
     discord_bot_token |-> "", discord_channel_id |-> "",
     debug |-> FALSE]

\* a load in which the defaults replace the values of the file
load_config_DefaultsWin(content) ==
    [k \in DOMAIN content \cup DOMAIN ConfigDefaults |->
        IF k \in DOMAIN ConfigDefaults THEN ConfigDefaults[k] ELSE content[k]]

\* load_config, lines 48-72: json.load and a setdefault per recognized key;
\* the file is opened for reading only
load_config(content) ==
    [k \in DOMAIN content \cup DOMAIN ConfigDefaults |->
        IF k \in DOMAIN content THEN content[k] ELSE ConfigDefaults[k]]

\* the keys config.json may hold here, with a value that is not the default
\* ("custom" is a key the program does not know)
OtherValues ==
    [max_viewers |-> 50,
     max_followers |-> 100,
     game_ids |-> <<"509658">>,
     ignored_channels |-> <<"alice">>,
     debug |-> TRUE,
     custom |-> "x"]

\* the object that holds key k as choice[k] says: not at all, with the
\* default of the key, or with its other value
FileOf(choice) ==
    [k \in {key \in DOMAIN OtherValues : choice[key] # "absent"} |->
        IF choice[k] = "default" THEN ConfigDefaults[k] ELSE OtherValues[k]]

\* the objects of config.json
ConfigFiles ==
    {FileOf(choice) :
        choice \in {c \in [DOMAIN OtherValues -> {"absent", "default", "other"}] :
                        c["custom"] # "default"}}

InitConfig ==
    /\ mode = "init"
    /\ config = << >>
    /\ config_file \in {[state |-> "valid", content |-> c] : c \in ConfigFiles}
    /\ InitLocals
    /\ ledger_file = NoFile
    /\ notified_streams = {}
    /\ file_at_start = NoFile
    /\ ApiIdle
    /\ twitch_token = 1
    /\ twitch_headers = headers_at_init(twitch_token)
    /\ twitch_credentials = TRUE
    /\ FilterIdle
    /\ LookupIdle

\* __init__, lines 21-46, with load_config on a readable file (and no
\* notified_streams.json)
Construct ==
    /\ mode = "init"
    /\ mode' = "menu"
    /\ config' = load_config(config_file.content)
    /\ UNCHANGED <<config_file, ledgerVars, taskVars, cycleHistory,
                   deliveryHistory, ignore_args, cycles, restarts>>
    /\ UNCHANGED nonMainVars

NextConfig == Construct

SpecConfig == InitConfig /\ [][NextConfig]_vars

(***************************************************************************)
(* The ignore command on its own, with arguments that differ in case and   *)
(* in leading whitespace.                                                  *)
(***************************************************************************)
MaxEntries == 2

ChannelArgs == {"alice", "ALICE", " Alice", " alice", "12"}

NextIgnore ==
    \/ StartMonitoring
    \/ \E ch \in ChannelArgs, o \in WriteOutcomes :
          ignore_command_upto(ch, o, MaxEntries)

SpecIgnore == Init /\ [][NextIgnore]_vars

(***************************************************************************)
(* Two poll cycles of the filter and the formatter, lookup by lookup.      *)
(***************************************************************************)
InitLookups ==
    /\ InitMain
    /\ ledger_file = NoFile
    /\ ApiIdle
    /\ twitch_token = 1
    /\ twitch_headers = headers_at_init(twitch_token)
    /\ twitch_credentials = TRUE
    /\ filter_pc = "called"
    /\ filter_input \in LookupInputs
    /\ filter_config \in LookupConfigs
    /\ filter_result = NoResult
    /\ lookup_run = 1
    /\ pending_user_ids = {}
    /\ counts_so_far = << >>
    /\ follower_answers \in LookupFollowers
    /\ types_answers \in LookupTypes
    /\ follower_calls = NoCalls
    /\ format_calls = NoCalls
    /\ first_run = NoResult
    /\ ledger_op = "none"
    /\ format_pc = "idle"
    /\ format_streams = << >>
    /\ format_followers = << >>
    /\ format_embeds = << >>
    /\ format_values = << >>

NextLookups ==
    \/ first_pass_step
    \/ \E u \in LookupUserIds, refreshed \in BOOLEAN : lookup_follower(u, refreshed)
    \/ second_pass_step
    \/ format_step
    \/ next_cycle

SpecLookups == InitLookups /\ [][NextLookups]_vars

(***************************************************************************)
(* Properties of the API client.                                           *)
(***************************************************************************)
\* the identity of a stream record
Pair(stream) == <<stream.user_id, stream.id>>

\* the k-th smallest member of a set of numbers
Nth(S, k) == CHOOSE x \in S : Cardinality({y \in S : y <= x}) = k

\* the records of a page whose identity is neither among seen nor that of an
\* earlier record of the page, in the order of the page
FirstOccurrences(data, seen) ==
    LET keep == {k \in DOMAIN data :
                    /\ Pair(data[k]) \notin seen
                    /\ \A j \in 1..(k - 1) : Pair(data[j]) # Pair(data[k])}
    IN  [n \in 1..Cardinality(keep) |-> data[Nth(keep, n)]]

\* the step in which get_streams receives a page
PageReceived ==
    /\ api_op = "get_streams"
    /\ api_pc \in {"request", "retry"}
    /\ api_pc' \in {"request", "done"}
    /\ response'.status = 200

\* the step in which a request of the call ends with a network error or an
\* HTTP error other than 401
RequestFails ==
    /\ api_pc \in {"request", "retry"}
    /\ api_pc' \in {"request", "done"}
    /\ response'.status \in {500, NetworkError}

\* C7: get_streams collects the records of the pages it fetches once per
\* identity (user_id, id), in the order of their first occurrence: every
\* page adds its records with an identity not seen before, the first of each
\* identity, and nothing else changes the collection, which is returned.
C7_NoDuplicates ==
    api_op = "get_streams" =>
        /\ \A i, j \in DOMAIN all_streams :
              Pair(all_streams[i]) = Pair(all_streams[j]) => i = j
        /\ api_pc = "done" => api_result = all_streams

C7_PageAdded ==
    /\ PageReceived =>
          all_streams' = all_streams \o
              FirstOccurrences(response'.data, {Pair(s) : s \in Range(all_streams)})
    /\ (api_op = "get_streams" /\ api_op' = "get_streams" /\ ~PageReceived)
          => all_streams' = all_streams

C7_DedupFirstOccurrence == []C7_NoDuplicates /\ [][C7_PageAdded]_vars

\* a call with two batches returns two streams, and the last page of the
\* second batch held another record of the first stream's identity
C7_Witness ==
    /\ api_op = "get_streams"
    /\ api_pc = "done"
    /\ Len(api_arg) > BatchSize
    /\ Len(api_result) = 2
    /\ response.status = 200
    /\ \E k \in DOMAIN response.data :
          /\ Pair(response.data[k]) = Pair(api_result[1])
          /\ response.data[k] # api_result[1]
    /\ \A k \in DOMAIN response.data : response.data[k] # api_result[1]
    /\ Pair(api_result[2]) = <<"1", "12">>

\* C8 as stated: a request answered with 401 is followed by exactly one
\* re-authentication and is sent again exactly once.
C8_AlwaysRetried ==
    settled.first = 401 => settled.reauths = 1 /\ settled.attempts = 2

\* C8: a request answered with 401 is followed by exactly one call of
\* validate_and_refresh_token and is sent again, once, exactly when that
\* call returned True; a request answered otherwise is not sent again; no
\* request is sent more than twice; get_follower_count returns None when the
\* second sending is not answered with 200.
C8_RetryOnceAfterReauth ==
    /\ request.attempts <= 2
    /\ request.reauths <= 1
    /\ settled.attempts <= 2
    /\ settled.first = 401 =>
          /\ settled.reauths = 1
          /\ settled.attempts = (IF settled.validated THEN 2 ELSE 1)
    /\ settled.first \notin {401, None} =>
          settled.attempts = 1 /\ settled.reauths = 0
    /\ (api_op = "get_follower_count" /\ api_pc = "done"
            /\ settled.first = 401 /\ settled.last # 200) => api_result = None

\* a request of get_streams was answered with 401, the token was validated
\* and the second sending brought a page
C8_Witness ==
    /\ api_op = "get_streams"
    /\ settled.first = 401
    /\ settled.validated
    /\ settled.attempts = 2
    /\ settled.last = 200
    /\ all_streams # << >>

C9_Returned ==
    api_pc = "done" =>
        /\ api_op = "get_streams" => api_result = all_streams
        /\ (api_op = "get_follower_count" /\ settled.last # 200)
              => api_result = None
        /\ api_op = "get_broadcaster_types_batch" =>
              /\ api_result = broadcaster_types_map
              /\ DOMAIN api_result \cap failed_ids = {}

C9_BatchGivenUp ==
    RequestFails =>
        /\ all_streams' = all_streams
        /\ broadcaster_types_map' = broadcaster_types_map
        /\ api_pc' = "done" \/ batch_i' = batch_i + BatchSize
        /\ request_failed'

OnlyViewerBounds(cfg) ==
    /\ cfg.max_viewers # None
    /\ cfg.required_tags = {} /\ cfg.exclude_tags = {}
    /\ cfg.ignored_channels = << >>
    /\ ~cfg.affiliate_or_partner_only
    /\ cfg.min_followers = 0 /\ cfg.max_followers = None

\* C10: with both viewer bounds set and no other criterion, filter_streams
\* returns, in their order, the streams with
\* min_viewers <= viewer_count <= max_viewers: a count equal to a bound
\* passes.
C10_ViewerBoundsInclusive ==
    (filter_pc \in {"returned", "raised"} /\ OnlyViewerBounds(filter_config)) =>
        /\ filter_pc = "returned"
        /\ filter_result.filtered =
              SelectSeq(filter_input,
                        LAMBDA s : /\ filter_config.min_viewers <= s.viewer_count
                                   /\ s.viewer_count <= filter_config.max_viewers)

\* min 10, max 100: of the streams with 5, 50 and 150 viewers the one with
\* 50 is returned
C10_Witness ==
    /\ filter_pc = "returned"
    /\ filter_config.min_viewers = 10
    /\ filter_config.max_viewers = 100
    /\ filter_input = <<FilterStream(5), FilterStream(50), FilterStream(150)>>
    /\ filter_result.filtered = <<FilterStream(50)>>

\* no criterion but min_viewers is configured, max_viewers is null
OnlyMinViewers(cfg) ==
    /\ cfg.max_viewers = None
    /\ cfg.required_tags = {} /\ cfg.exclude_tags = {}
    /\ cfg.ignored_channels = << >>
    /\ ~cfg.affiliate_or_partner_only
    /\ cfg.min_followers = 0 /\ cfg.max_followers = None

\* C11 as stated: with max_viewers null and no other criterion,
\* filter_streams returns, and returns the streams with
\* viewer_count >= min_viewers.
C11_NoUpperBound ==
    (filter_pc \in {"returned", "raised"} /\ OnlyMinViewers(filter_config)) =>
        /\ filter_pc = "returned"
        /\ filter_result.filtered =
              SelectSeq(filter_input,
                        LAMBDA s : filter_config.min_viewers <= s.viewer_count)

\* the streams of the list handed to the filter, and of the list it returned
Candidates == Range(filter_input)
Qualifying == Range(filter_result.filtered)

\* the stream is within the viewer bounds and its channel is not ignored
PassesViewersAndIgnored(s, cfg) ==
    /\ cfg.max_viewers # None
    /\ cfg.min_viewers <= s.viewer_count /\ s.viewer_count <= cfg.max_viewers
    /\ \A k \in DOMAIN cfg.ignored_channels :
          /\ str_lower(cfg.ignored_channels[k]) # str_lower(s.user_name)
          /\ cfg.ignored_channels[k] # s.user_id

\* no criterion of the second pass is configured
NoSecondPass(cfg) ==
    /\ ~cfg.affiliate_or_partner_only
    /\ cfg.min_followers = 0 /\ cfg.max_followers = None

RejectedByRequired(s, cfg) ==
    /\ cfg.required_tags # {}
    /\ s.tags = None_tags \/ ~(cfg.required_tags \subseteq s.tags)

RejectedByExclude(s, cfg) ==
    /\ cfg.exclude_tags # {}
    /\ s.tags # None_tags
    /\ s.tags \cap cfg.exclude_tags # {}

\* C12: a stream that the required-tags rule (tag set absent or not a
\* superset of required_tags) or the exclude rule (tag set present and
\* intersecting exclude_tags) rejects is never in the returned list, and a
\* stream that no other rule rejects is returned iff neither tag rule
\* rejects it; in particular a stream without a tag set passes when only
\* exclude_tags is configured.
C12_TagRule ==
    filter_pc = "returned" =>
        \A s \in Candidates :
            /\ (RejectedByRequired(s, filter_config)
                  \/ RejectedByExclude(s, filter_config)) => s \notin Qualifying
            /\ (PassesViewersAndIgnored(s, filter_config)
                  /\ NoSecondPass(filter_config)) =>
                  (s \in Qualifying <=>
                      /\ ~RejectedByRequired(s, filter_config)
                      /\ ~RejectedByExclude(s, filter_config))
            /\ (PassesViewersAndIgnored(s, filter_config)
                  /\ NoSecondPass(filter_config)
                  /\ s.tags = None_tags
                  /\ filter_config.required_tags = {}) => s \in Qualifying

\* only exclude_tags is configured: a stream without a tag set is returned,
\* one with an excluded tag is not, one with other tags is
C12_Witness ==
    /\ filter_pc = "returned"
    /\ filter_config.required_tags = {}
    /\ filter_config.exclude_tags = {"fps"}
    /\ \E s \in Candidates \cap Qualifying : s.tags = None_tags
    /\ \E s \in Candidates \cap Qualifying : s.tags = {"en"}
    /\ \E s \in Candidates \ Qualifying : s.tags = {"en", "fps"}

\* the channel of the stream is ignored: its name equals an entry ignoring
\* case, or its broadcaster id is an entry
ChannelIgnored(s, cfg) ==
    \E k \in DOMAIN cfg.ignored_channels :
        \/ str_lower(cfg.ignored_channels[k]) = str_lower(s.user_name)
        \/ cfg.ignored_channels[k] = s.user_id

PassesViewersAndTags(s, cfg) ==
    /\ cfg.max_viewers # None
    /\ cfg.min_viewers <= s.viewer_count /\ s.viewer_count <= cfg.max_viewers
    /\ ~RejectedByRequired(s, cfg) /\ ~RejectedByExclude(s, cfg)

\* C13: no stream of an ignored channel (name equal to an entry ignoring
\* case, or broadcaster id equal to an entry) is in the returned list,
\* whatever the other criteria and lookups; and a stream that no other rule
\* rejects is returned iff its channel is not ignored.
C13_IgnoredRule ==
    filter_pc = "returned" =>
        \A s \in Candidates :
            /\ ChannelIgnored(s, filter_config) => s \notin Qualifying
            /\ (PassesViewersAndTags(s, filter_config)
                  /\ NoSecondPass(filter_config)) =>
                  (s \in Qualifying <=> ~ChannelIgnored(s, filter_config))

\* "Bob" is ignored by name and "Alice" by id, though Alice's broadcaster is
\* a partner; "alice", of another broadcaster, is returned
C13_Witness ==
    /\ filter_pc = "returned"
    /\ filter_config.ignored_channels = <<"Bob", "11">>
    /\ \E s \in Candidates \ Qualifying : s.user_name = "bob"
    /\ \E s \in Candidates \ Qualifying : s.user_name = "Alice" /\ s.user_id = "11"
    /\ \E s \in Candidates \cap Qualifying : s.user_name = "alice"

\* the stream survives the first pass
Survivor(s, cfg) == PassesViewersAndTags(s, cfg) /\ ~ChannelIgnored(s, cfg)

NoFollowerBounds(cfg) == cfg.min_followers = 0 /\ cfg.max_followers = None

\* the batch lookup resolved the broadcaster to an affiliate or a partner
AffiliateOrPartner(s) ==
    /\ s.user_id \in DOMAIN filter_result.broadcaster_types
    /\ filter_result.broadcaster_types[s.user_id] \in {"affiliate", "partner"}

\* C14: with affiliate_or_partner_only set a stream is returned only if the
\* batch lookup resolved its broadcaster to "affiliate" or "partner" (an id
\* absent from the result, or any other type, is rejected), and a survivor of
\* the first pass with no follower bound configured is returned iff so; with
\* the flag unset no broadcaster-type lookup is made and such a survivor is
\* always returned.
C14_AffiliateRule ==
    filter_pc = "returned" =>
        IF filter_config.affiliate_or_partner_only
        THEN \A s \in Candidates :
                /\ s \in Qualifying => AffiliateOrPartner(s)
                /\ (Survivor(s, filter_config)
                      /\ NoFollowerBounds(filter_config)) =>
                      (s \in Qualifying <=> AffiliateOrPartner(s))
        ELSE /\ ~filter_result.types_fetched
             /\ filter_result.broadcaster_types = << >>
             /\ \A s \in Candidates :
                   (Survivor(s, filter_config)
                      /\ NoFollowerBounds(filter_config)) => s \in Qualifying

\* the flag is set: the partner's stream is returned, the stream of a
\* broadcaster with the empty type and the stream of an unresolved one are not
C14_Witness ==
    /\ filter_pc = "returned"
    /\ filter_config.affiliate_or_partner_only
    /\ filter_result.types_fetched
    /\ DOMAIN filter_result.broadcaster_types = {"11", "12"}
    /\ filter_result.broadcaster_types["11"] = "partner"
    /\ filter_result.broadcaster_types["12"] = ""
    /\ \E s \in Candidates \cap Qualifying : s.user_id = "11"
    /\ \E s \in Candidates \ Qualifying : s.user_id = "12"
    /\ \E s \in Candidates \ Qualifying : s.user_id = "13"

\* the follower count of the stream's broadcaster is known
FollowersKnown(s) == s.user_id \in DOMAIN filter_result.follower_counts

\* a known count outside the inclusive bounds
OutsideFollowerBounds(s, cfg) ==
    \/ filter_result.follower_counts[s.user_id] < cfg.min_followers
    \/ /\ cfg.max_followers # None
       /\ filter_result.follower_counts[s.user_id] > cfg.max_followers

\* C15: a stream that the first pass and the affiliate rule let through is
\* returned iff its follower count is unknown or lies within
\* [min_followers, max_followers] (max_followers unset: no upper bound); so
\* with a bound configured a known count is rejected iff it is below
\* min_followers or above a set max_followers, and an unknown count never.
C15_FollowerRule ==
    filter_pc = "returned" =>
        \A s \in Candidates :
            (Survivor(s, filter_config)
               /\ (filter_config.affiliate_or_partner_only => AffiliateOrPartner(s))) =>
                IF FollowersKnown(s)
                THEN s \in Qualifying <=> ~OutsideFollowerBounds(s, filter_config)
                ELSE s \in Qualifying

\* both bounds are 7: a count of 7 is returned, a count of 8 is not, an
\* unknown count is returned
C15_Witness ==
    /\ filter_pc = "returned"
    /\ filter_config.min_followers = 7 /\ filter_config.max_followers = 7
    /\ \E s \in Candidates \cap Qualifying :
          FollowersKnown(s) /\ filter_result.follower_counts[s.user_id] = 7
    /\ \E s \in Candidates \ Qualifying :
          FollowersKnown(s) /\ filter_result.follower_counts[s.user_id] = 8
    /\ \E s \in Candidates \cap Qualifying : s.user_id # "" /\ ~FollowersKnown(s)

(***************************************************************************)
(* Properties of the lookups of a poll cycle.                              *)
(***************************************************************************)
\* the distinct non-empty broadcaster ids among the survivors of the first pass
SurvivorIds ==
    {s.user_id : s \in {x \in Candidates : Survivor(x, filter_config)}} \ {""}

\* C16: when filter_streams has returned, get_follower_count was called in
\* this cycle exactly once for each distinct non-empty broadcaster id among
\* the survivors of the first pass, with or without a follower bound
\* configured, and not at all for any other broadcaster; it is never called
\* more than once while the loop runs, and format_streams_embed calls it
\* for nobody.
C16_OneLookupPerSurvivor ==
    lookup_run > 0 =>
        /\ \A u \in LookupUserIds : follower_calls[u] <= 1 /\ format_calls[u] = 0
        /\ filter_pc \in {"returned", "done"} =>
              \A u \in LookupUserIds :
                  follower_calls[u] = IF u \in SurvivorIds THEN 1 ELSE 0

\* no follower bound is configured; broadcaster 11 has a stream that
\* survives and one above max_viewers, broadcaster 12 is ignored; the
\* streams were formatted
C16_Witness ==
    /\ lookup_run > 0
    /\ filter_pc = "done"
    /\ filter_result.filtered # << >>
    /\ filter_config.min_followers = 0 /\ filter_config.max_followers = None
    /\ \E s \in Candidates : s.user_id = "11" /\ Survivor(s, filter_config)
    /\ \E s \in Candidates : s.user_id = "11" /\ ~Survivor(s, filter_config)
    /\ \E s \in Candidates : s.user_id = "12"
    /\ "12" \notin SurvivorIds
    /\ follower_calls["11"] = 1 /\ follower_calls["12"] = 0
    /\ "11" \in DOMAIN filter_result.follower_counts

C18_NoCaseDuplicates ==
    \A i, j \in DOMAIN config.ignored_channels :
        i # j => str_lower(config.ignored_channels[i])
                    # str_lower(config.ignored_channels[j])

(***************************************************************************)
(* Properties of the ledger.                                               *)
(***************************************************************************)
\* C19 as stated: load_notified_streams returns the set of the keys when the
\* file holds {"notified_streams": [k1, ...]}, and the empty set when the
\* file is missing, is not valid JSON or has any other shape.
C19_EmptyUnlessKeyList ==
    ledger_op = "loaded" =>
        notified_streams =
            IF ledger_file.state = "valid"
            THEN {ledger_file.content[k] : k \in DOMAIN ledger_file.content}
            ELSE {}

\* C20: after a successful save the ledger file holds a list of exactly the
\* members of notified_streams, nothing of what it held before, and
\* load_notified_streams returns notified_streams from it.
C20_LoadAfterFlush ==
    ledger_op = "flushed" =>
        /\ ledger_file.state = "valid"
        /\ {ledger_file.content[k] : k \in DOMAIN ledger_file.content}
              = notified_streams
        /\ Len(ledger_file.content) = Cardinality(notified_streams)
        /\ load_notified_streams(ledger_file) = notified_streams

\* the file listed one key twice at the start; another key was added and
\* the save succeeded, listing the new key first
C20_Witness ==
    /\ ledger_op = "flushed"
    /\ file_at_start = [state |-> "valid", content |-> <<"11_1", "11_1">>]
    /\ notified_streams = {"11_1", "12_2"}
    /\ ledger_file.content = <<"12_2", "11_1">>

(***************************************************************************)
(* Properties of the monitoring model.                                     *)
(***************************************************************************)
\* the task is inside check_and_notify
InCycle(t) == pc[t] \in {"checked", "sending", "rate_sleep"}

\* the step in which the send of the task's last embed returns and
\* check_and_notify ends
CycleEnds(t) == pc[t] = "sending" /\ pc'[t] = "sleep"

\* the step in which a send of the task returns True
SendOk(t) ==
    /\ pc[t] = "sending"
    /\ pc'[t] \in {"sending", "rate_sleep", "sleep"}
    /\ unit_failures'[t] = unit_failures[t]

\* the keys of the streams the task's embeds show
EmbedKeys(t) ==
    UNION {StreamKeys([k \in DOMAIN embeds[t][e].fields |->
                          embeds[t][e].fields[k].stream]) : e \in DOMAIN embeds[t]}

\* the ignore argument names the stream's channel
Matches(stream, channel) ==
    \/ str_lower(stream.user_name) = str_lower(channel)
    \/ stream.user_id = channel

\* C1: a cycle that found new streams marks all of them in the ledger and
\* writes the ledger file when every embed was sent, and leaves the ledger
\* and its file untouched when at least one embed's send failed; nothing
\* else but a process start changes the ledger.
C1_AllOrNothing ==
    [][/\ \A t \in Tasks : CycleEnds(t) =>
            IF unit_failures'[t] = 0
            THEN /\ StreamKeys(new_streams[t]) \subseteq notified_streams'
                 /\ \/ /\ ledger_file'.state = "valid"
                       /\ set_of(ledger_file'.content) = notified_streams'
                    \/ ledger_file' = ledger_file
                    \/ ledger_file'.state = "invalid"
            ELSE UNCHANGED ledgerVars
       /\ (restarts' = restarts /\ ledgerVars' # ledgerVars) =>
            \E t \in Tasks : CycleEnds(t) /\ unit_failures'[t] = 0
      ]_vars

\* a cycle with two embeds ended after one failed send, none of its streams
\* is marked
C1_Witness ==
    \E t \in Tasks :
        /\ pc[t] = "sleep"
        /\ unit_failures[t] = 1
        /\ Len(failed_streams[t]) = 2
        /\ StreamKeys(failed_streams[t]) \cap notified_streams = {}

\* C2: the streams a cycle dispatches are the qualifying streams whose key
\* the ledger did not hold, and a successful cycle leaves the ledger holding
\* what it held plus exactly the keys of those streams.
C2_Dispatched ==
    \A t \in Tasks : InCycle(t) =>
        /\ \A k \in DOMAIN filtered_streams[t] :
              get_stream_id(filtered_streams[t][k]) \in cycle_ledger[t]
                  => get_stream_id(filtered_streams[t][k]) \notin EmbedKeys(t)
        /\ EmbedKeys(t) = {get_stream_id(s) : s \in Range(filtered_streams[t])}
                              \ cycle_ledger[t]
        /\ EmbedKeys(t) = StreamKeys(new_streams[t])

C2_Committed ==
    \A t \in Tasks : (CycleEnds(t) /\ unit_failures'[t] = 0) =>
        notified_streams' = notified_streams \cup EmbedKeys(t)

C3_ExactlyOnce == \A k \in DOMAIN delivered : delivered[k] <= 1

\* C3: no send delivers a stream whose key the ledger held when the cycle
\* of the send began, or whose key the ledger file held when the process
\* started.
C3_NotAfterMarked ==
    [][\A t \in Tasks : SendOk(t) =>
          LET keys == StreamKeys([k \in DOMAIN embeds[t][embed_i[t] + 1].fields |->
                                     embeds[t][embed_i[t] + 1].fields[k].stream])
          IN  /\ keys \cap cycle_ledger[t] = {}
              /\ file_at_start.state = "valid"
                    => keys \cap set_of(file_at_start.content) = {}
      ]_vars

\* after a restart a cycle finds a qualifying stream that was delivered once
\* and whose key the ledger file held at the start, and does not dispatch it
C3_Witness ==
    \E t \in Tasks :
        /\ InCycle(t)
        /\ restarts = 1
        /\ \E s \in Range(filtered_streams[t]) :
              /\ file_at_start.state = "valid"
              /\ get_stream_id(s) \in set_of(file_at_start.content)
              /\ delivered[get_stream_id(s)] = 1
              /\ s \notin Range(new_streams[t])

\* C4 as stated: a cycle with a failed send leaves the ledger and its file
\* as they were when the cycle began, and the next cycle of the loop
\* dispatches again every stream of the failed cycle that still qualifies.
C4_LedgerAsBefore ==
    \A t \in Tasks : (CycleEnds(t) /\ unit_failures'[t] > 0) =>
        /\ notified_streams' = cycle_ledger[t]
        /\ ledger_file' = cycle_file[t]

C4_Retried ==
    \A t \in Tasks : (pc[t] = "checked" /\ failed_streams[t] # << >>) =>
        \A s \in Range(failed_streams[t]) \cap Range(filtered_streams[t]) :
            /\ s \in Range(new_streams[t])
            /\ get_stream_id(s) \in EmbedKeys(t)

C4_RetryAfterFailure == []C4_Retried /\ [][C4_LedgerAsBefore]_vars

\* C5 as stated: at most one cycle is in progress at any moment.
C5_OneCycleAtATime == Cardinality({t \in Tasks : InCycle(t)}) <= 1

\* C6: an ignore command changes nothing of a cycle in progress nor the
\* ledger, and every cycle that begins after it rejects the streams of the
\* channel it named.
C6_NextFetchRejects ==
    \A t \in Tasks : pc[t] = "checked" =>
        \A ch \in ignore_args : \A s \in Range(filtered_streams[t]) :
            ~Matches(s, ch)

C6_CycleUntouched ==
    (restarts' = restarts /\ (ignore_args' # ignore_args \/ config' # config))
        => UNCHANGED <<taskVars, ledgerVars, cycleHistory, deliveryHistory>>

CycleBegins(t) == pc[t] \in {"start", "sleep"} /\ pc'[t] \in {"checked", "raised"}

\* C21: as long as the process is not started anew, no step removes a key
\* from notified_streams; a cycle whose embeds were all sent marks the keys
\* of its new streams and goes to its sleep also when the save of the
\* ledger file failed; and a cycle that begins dispatches no stream whose
\* key is in notified_streams.
C21_Grows ==
    [][/\ restarts' = restarts => notified_streams \subseteq notified_streams'
       /\ \A t \in Tasks :
            /\ (CycleEnds(t) /\ unit_failures'[t] = 0) =>
                  StreamKeys(new_streams[t]) \subseteq notified_streams'
            /\ CycleBegins(t) =>
                  StreamKeys(new_streams'[t]) \cap notified_streams = {}
      ]_vars

\* the save of a cycle failed, so that the file does not hold the key that
\* the ledger holds; a later cycle of the same run finds the stream
\* qualifying and does not dispatch it
C21_Witness ==
    \E t \in Tasks :
        /\ pc[t] = "checked"
        /\ restarts = 0
        /\ \E s \in Range(filtered_streams[t]) :
              /\ get_stream_id(s) \in notified_streams
              /\ get_stream_id(s) \notin load_notified_streams(ledger_file)
              /\ delivered[get_stream_id(s)] = 1
              /\ s \notin Range(new_streams[t])

(***************************************************************************)
(* Properties of the formatter.                                            *)
(***************************************************************************)
\* the streams of a game in the input, and the units that carry its name
StreamsOfGame(g) == SelectSeq(format_streams, LAMBDA s : s.game_name = g)
UnitsOfGame(g) == SelectSeq(format_embeds, LAMBDA e : e.title = g)
InputGames == {format_streams[k].game_name : k \in DOMAIN format_streams}

\* the least number of chunks of ten that hold n
Chunks(n) == CHOOSE y \in 0..n : 10 * y >= n /\ 10 * (y - 1) < n

\* C22: a game with n >= 1 streams gets exactly ceil(n/10) units; each holds
\* at most 10 streams and every unit but the last exactly 10; with more than
\* one unit the X-th carries the footer "Page X of Y", a single unit none.
C22_ChunksOfTen ==
    format_pc = "returned" =>
        \A g \in InputGames :
            LET n == Len(StreamsOfGame(g))
                units == UnitsOfGame(g)
                Y == Chunks(n)
            IN  /\ Len(units) = Y
                /\ \A X \in 1..Len(units) :
                      /\ Len(units[X].fields) <= 10
                      /\ Len(units[X].fields) >= 1
                      /\ X < Len(units) => Len(units[X].fields) = 10
                      /\ units[X].footer = IF Y > 1 THEN <<X, Y>> ELSE << >>

\* game A has 23 streams and 3 units with the footers Page 1 of 3 to Page 3
\* of 3, the last with 3 streams; game B has 10 streams in one unit
\* without a footer
C22_Witness ==
    /\ format_pc = "returned"
    /\ Len(StreamsOfGame("A")) = 23
    /\ Len(UnitsOfGame("A")) = 3
    /\ \A X \in 1..3 : UnitsOfGame("A")[X].footer = <<X, 3>>
    /\ Len(UnitsOfGame("A")[3].fields) = 3
    /\ Len(StreamsOfGame("B")) = 10
    /\ Len(UnitsOfGame("B")) = 1
    /\ UnitsOfGame("B")[1].footer = << >>

\* the streams of a unit in the order of its fields
UnitStreams(e) == [k \in DOMAIN e.fields |-> e.fields[k].stream]

\* the streams of a sequence of units, unit after unit
RECURSIVE AllUnitStreams(_)
AllUnitStreams(units) ==
    IF units = << >> THEN << >>
    ELSE UnitStreams(Head(units)) \o AllUnitStreams(Tail(units))

\* the position of the first stream of game g in the input
FirstPosition(g) ==
    CHOOSE k \in DOMAIN format_streams :
        /\ format_streams[k].game_name = g
        /\ \A j \in 1..(k - 1) : format_streams[j].game_name # g

\* the places (unit, field) at which a stream is shown
PlacesOf(s) ==
    {<<i, j>> \in (DOMAIN format_embeds) \X (1..10) :
        j \in DOMAIN format_embeds[i].fields
            /\ format_embeds[i].fields[j].stream = s}

\* C23: the units partition the input: every stream of the input is shown
\* at exactly one place; a unit shows streams of the game of its title
\* only; the units come in the order of the first streams of their games
\* in the input, so that the units of a game follow one another; and the
\* units of a game, one after the other, show its streams in input order.
C23_Partition ==
    format_pc = "returned" =>
        /\ \A k \in DOMAIN format_streams :
              Cardinality(PlacesOf(format_streams[k])) = 1
        /\ Len(AllUnitStreams(format_embeds)) = Len(format_streams)
        /\ \A i \in DOMAIN format_embeds :
              /\ \A j \in DOMAIN format_embeds[i].fields :
                    format_embeds[i].fields[j].stream.game_name
                        = format_embeds[i].title
              /\ format_embeds[i].title \in InputGames
        /\ \A i, j \in DOMAIN format_embeds :
              i < j => FirstPosition(format_embeds[i].title)
                          <= FirstPosition(format_embeds[j].title)
        /\ \A g \in InputGames :
              AllUnitStreams(UnitsOfGame(g)) = StreamsOfGame(g)

\* the streams of A and B alternate in the input, A first; the units are
\* two of A followed by two of B
C23_Witness ==
    /\ format_pc = "returned"
    /\ Len(format_streams) > 3
    /\ format_streams[1].game_name = "A"
    /\ format_streams[2].game_name = "B"
    /\ format_streams[3].game_name = "A"
    /\ [i \in DOMAIN format_embeds |-> format_embeds[i].title]
          = <<"A", "A", "B", "B">>

\* C24: every field value of every unit has at most 1024 characters; a
\* rendered value of at most 1024 characters is emitted as it is, a longer
\* one as its first 1020 characters followed by "...".
C24_ValueLength ==
    format_pc = "returned" =>
        \A i \in DOMAIN format_embeds : \A j \in DOMAIN format_embeds[i].fields :
            LET rendered == rendered_value(format_embeds[i].fields[j].stream)
                value == format_values[i][j]
            IN  /\ Len(value) <= 1024
                /\ Len(rendered) <= 1024 => value = rendered
                /\ Len(rendered) > 1024 =>
                      /\ Len(value) = 1023
                      /\ SubSeq(value, 1, 1020) = SubSeq(rendered, 1, 1020)
                      /\ SubSeq(value, 1021, 1023) = "..."

\* a rendered value of 1025 characters was cut to 1023
C24_Witness ==
    /\ format_pc = "returned"
    /\ Len(format_streams) = 1
    /\ Len(rendered_value(format_streams[1])) = 1025
    /\ Len(format_values[1][1]) = 1023

(***************************************************************************)
(* Properties of the dispatch loop                                         *)
(***************************************************************************)
\* the step begins a rate-limit sleep of task t
PauseBegins(t) == pc[t] # "rate_sleep" /\ pc'[t] = "rate_sleep"

\* the step begins the send of an embed of task t (the one of index
\* embed_i'[t], counted from 0)
SendBegins(t) ==
    /\ pc'[t] = "sending"
    /\ pc[t] = "sending" => embed_i'[t] # embed_i[t]

\* C25: in a cycle that dispatches n units a rate-limit sleep begins exactly
\* before the units at the positions 6, 11, 16, ... (5, 10, 15, ... units
\* were attempted, successfully or not), the send of every such unit begins
\* from a rate-limit sleep and the send of no other unit does, and the cycle
\* ends after floor((n-1)/5) sleeps.
C25_Pauses ==
    [][\A t \in Tasks :
        /\ PauseBegins(t) =>
              /\ embed_i'[t] > 0
              /\ embed_i'[t] % 5 = 0
              /\ embed_i'[t] < Len(embeds[t])
              /\ pauses'[t] = embed_i'[t] \div 5
        /\ SendBegins(t) =>
              (pc[t] = "rate_sleep" <=> (embed_i'[t] > 0 /\ embed_i'[t] % 5 = 0))
        /\ CycleEnds(t) => pauses'[t] = (Len(embeds[t]) - 1) \div 5
      ]_vars

\* the second rate-limit sleep of a cycle, before the unit at position 11,
\* after units that failed
C25_Witness ==
    /\ pc[1] = "rate_sleep"
    /\ embed_i[1] = 10
    /\ pauses[1] = 2
    /\ sent_count[1] = 0

\* task t is in its dispatch loop, at the send of an embed or at a
\* rate-limit sleep
Dispatching(t) == pc[t] \in {"sending", "rate_sleep"}

\* C26: in a cycle the units are attempted once each in the order of the
\* formatter's list: the units before the current one were each counted
\* once, as sent or as failed; a send that returns, successful or not, is
\* followed by the next unit of the same list and never by the same or an
\* earlier one; the cycle ends only at the return of the send of the last
\* unit, whatever failed before.
C26_OnceInOrder ==
    /\ [](\A t \in Tasks : Dispatching(t) =>
            /\ embed_i[t] < Len(embeds[t])
            /\ sent_count[t] + unit_failures[t] = embed_i[t])
    /\ [][\A t \in Tasks : Dispatching(t) =>
            \/ /\ Dispatching(t)'
               /\ embeds'[t] = embeds[t]
               /\ \/ /\ embed_i'[t] = embed_i[t]
                     /\ sent_count'[t] = sent_count[t]
                     /\ unit_failures'[t] = unit_failures[t]
                  \/ /\ pc[t] = "sending"
                     /\ embed_i'[t] = embed_i[t] + 1
            \/ /\ CycleEnds(t)
               /\ embed_i[t] + 1 = Len(embeds[t])
               /\ unit_failures'[t] \in {unit_failures[t], unit_failures[t] + 1}
               /\ unit_failures'[t] > unit_failures[t] => sent_count[t] < Len(embeds[t])
            \/ pc'[t] = "none"
       ]_vars

\* the send of the last of the units is awaited after the second unit failed
\* and the others were sent
C26_Witness ==
    /\ pc[1] = "sending"
    /\ embed_i[1] = MaxBurst - 1
    /\ unit_failures[1] = 1
    /\ sent_count[1] = MaxBurst - 2

(***************************************************************************)
(* Properties of the phases of a cycle                                     *)
(***************************************************************************)
AllPhases == <<"Fetching", "Filtering", "Formatting", "Dispatching", "Sleeping">>

\* C27 as stated: every cycle that has gone to its sleep has passed through
\* Fetching, Filtering, Formatting, Dispatching and Sleeping, in this order.
C27_AllPhases ==
    \A t \in Tasks : pc[t] = "sleep" => phases[t] = AllPhases

\* C27, amended: the phases of a cycle are entered in the order Fetching,
\* Filtering, Formatting, Dispatching, Sleeping and none is entered twice;
\* Fetching and Filtering are entered by every cycle, Formatting and
\* Dispatching by exactly the cycles that have a new stream, and a cycle
\* without one goes from Filtering to Sleeping; the cycle after a sleep
\* begins with Fetching.
C27_PhasesInOrder ==
    /\ [](\A t \in Tasks :
            /\ pc[t] = "checked" =>
                  /\ has_new_streams(new_streams[t]) => phases[t] = SubSeq(AllPhases, 1, 3)
                  /\ ~has_new_streams(new_streams[t]) => phases[t] = SubSeq(AllPhases, 1, 2)
            /\ pc[t] = "raised" => phases[t] = SubSeq(AllPhases, 1, 2)
            /\ Dispatching(t) =>
                  /\ phases[t] = SubSeq(AllPhases, 1, 4)
                  /\ new_streams[t] # << >>
            /\ pc[t] = "sleep" =>
                  phases[t] \in {AllPhases, <<"Fetching", "Filtering", "Sleeping">>})
    /\ [][\A t \in Tasks :
            /\ (pc[t] = "checked" /\ pc'[t] = "sleep") =>
                  /\ new_streams[t] = << >>
                  /\ phases'[t] = <<"Fetching", "Filtering", "Sleeping">>
            /\ CycleEnds(t) => phases'[t] = AllPhases
            /\ CycleBegins(t) => SubSeq(phases'[t], 1, 2) = <<"Fetching", "Filtering">>
       ]_vars

\* a second cycle of a task that found no new stream sleeps without having
\* formatted or dispatched
C27_Witness ==
    \E t \in Tasks :
        /\ pc[t] = "sleep"
        /\ cycles = 2
        /\ notified_streams # {}
        /\ phases[t] = <<"Fetching", "Filtering", "Sleeping">>

(***************************************************************************)
(* Properties of the shutdown                                              *)
(***************************************************************************)
\* the step is the shutdown of a monitoring session: the tasks are cancelled
Cancelled == mode = "monitoring" /\ mode' = "menu" /\ restarts' = restarts

\* C28: when the tasks are cancelled at shutdown, every task ends, the step
\* changes the ledger neither in memory nor on disk, and of a cycle that is
\* interrupted in a send or in a rate-limit sleep no key is marked or
\* written.
C28_CancelledCycleUnmarked ==
    [][Cancelled =>
            /\ \A t \in Tasks : pc'[t] = "none"
            /\ notified_streams' = notified_streams
            /\ ledger_file' = ledger_file
            /\ \A t \in Tasks : Dispatching(t) =>
                  StreamKeys(new_streams[t])
                      \cap (notified_streams' \cup set_of(ledger_file'.content)) = {}
      ]_vars

(***************************************************************************)
(* Properties of the monitoring loop                                       *)
(***************************************************************************)
\* a cycle of the task has begun and has not reached the sleep of the loop
CycleBegun(t) == pc[t] \in {"checked", "raised", "sending", "rate_sleep"}

\* C29: while the client is not closed every cycle is eventually followed by
\* the sleep of the monitoring loop, and the sleep by another cycle (as long
\* as another one is counted), whatever fails inside the cycle.
C29_CycleThenSleep ==
    /\ [](CycleBegun(1) => <>(pc[1] = "sleep" \/ mode = "menu"))
    /\ []((pc[1] = "sleep" /\ cycles < MaxCycles)
            => <>(CycleBegun(1) \/ mode = "menu"))

(***************************************************************************)
(* Properties of load_config                                               *)
(***************************************************************************)
\* the config in memory has every key of the file with the file's value and
\* every other recognized key with its default, and no further key
Merged ==
    /\ DOMAIN config = DOMAIN config_file.content \cup DOMAIN ConfigDefaults
    /\ \A k \in DOMAIN config_file.content : config[k] = config_file.content[k]
    /\ \A k \in DOMAIN ConfigDefaults \ DOMAIN config_file.content :
            config[k] = ConfigDefaults[k]

\* the keys of the file and of the config in memory agree
SameKeys == DOMAIN config_file.content = DOMAIN config

\* C30 as stated: after load_config the config in memory is the merge of
\* the file and the defaults, and the file holds the merged result.
C30_MergedAndWrittenBack ==
    mode = "menu" => (Merged /\ SameKeys)

\* C30, amended: after load_config the config in memory is the merge of the
\* file and the defaults, and the file is what it was before the load: a
\* recognized key missing from the file is still missing from it.
C30_MergedInMemory ==
    /\ [](mode = "menu" => Merged)
    /\ [][config_file' = config_file]_vars

\* a file with an unknown key and without max_viewers has been loaded
C30_Witness ==
    /\ mode = "menu"
    /\ "custom" \in DOMAIN config_file.content
    /\ "max_viewers" \notin DOMAIN config_file.content
    /\ config.custom = "x"
    /\ config.max_viewers = 20
    /\ config.game_ids = <<"509658">>

(***************************************************************************)
(* Properties of the commands that change the configuration                *)
(***************************************************************************)
\* config.json holds the configuration in memory
InSync == config_file.state = "valid" /\ config_file.content = config

\* C31: a game added, a game removed and a channel ignored, each with a
\* save that succeeds, leave config.json equal to the configuration in
\* memory; no step that leaves the configuration alone changes the file; and
\* a cycle that begins reads the configuration as it is then: its filtered
\* streams are of watched games and of channels that are not ignored.
C31_SavedBeforeNextCycle ==
    [][/\ \A g \in MenuGames : (add_game(g, "ok") /\ config' # config) => InSync'
       /\ \A i \in 1..MaxGames : remove_game(i, "ok") => InSync'
       /\ \A ch \in IgnoreArgs :
            (ignore_command(ch, "ok") /\ config' # config) => InSync'
       /\ (InSync /\ config' = config) => config_file' = config_file
       /\ CycleBegins(1) =>
            /\ config' = config
            /\ \A s \in Range(filtered_streams'[1]) :
                  /\ game_id_of(s) \in Range(config.game_ids)
                  /\ ~IgnoredRule(s, config)
      ]_vars

\* the first game was removed and another one added in the menu; a cycle
\* has fetched and filtered a stream of the added game
C31_Witness ==
    /\ pc[1] = "checked"
    /\ config.game_ids = <<"33214">>
    /\ InSync
    /\ restarts = 0
    /\ Len(filtered_streams[1]) = 1
    /\ filtered_streams[1][1].id = "2"

(***************************************************************************)
(* Properties of the access token                                          *)
(***************************************************************************)
\* validate_and_refresh_token returns False: a credential is missing or the
\* answer of /oauth2/token brought no token, and the request is given up
AcquisitionFails ==
    /\ api_pc \in {"validate", "token"}
    /\ api_pc' \in {"request", "done"}

\* C36: the headers are empty, with no token, or their Authorization value
\* is "Bearer " followed by the current token; only a successful acquisition
\* changes the token or the headers, and one that fails changes neither.
C36_HeadersCarryToken ==
    /\ [](\/ twitch_headers = "" /\ twitch_token = NoToken
          \/ /\ twitch_token # NoToken
             /\ twitch_headers = "Bearer " \o ToString(twitch_token))
    /\ [][/\ AcquisitionFails =>
                /\ twitch_token' = twitch_token
                /\ twitch_headers' = twitch_headers
          /\ (twitch_token' # twitch_token \/ twitch_headers' # twitch_headers) =>
                /\ api_pc = "token"
                /\ api_pc' = "retry"
                /\ twitch_token' # NoToken
      ]_vars

\* a request was given up after its 401 because /oauth2/token brought no
\* token, although the credentials are configured; the first token is kept
C36_Witness ==
    /\ api_pc = "done"
    /\ twitch_credentials
    /\ settled.reauths = 1
    /\ ~settled.validated
    /\ twitch_token = 1
    /\ twitch_headers = "Bearer 1"

(***************************************************************************)
(* Properties of the page loop of get_streams                              *)
(***************************************************************************)
\* an iteration of the while loop at line 248 ends: with a page, with a
\* failed request, with a refused re-authentication or with a failed retry
IterationEnds ==
    /\ api_op = "get_streams"
    /\ api_pc \in {"request", "validate", "token", "retry"}
    /\ api_pc' \in {"request", "done"}

\* the iteration consumed a page and moves to the cursor the page returned
PageConsumed ==
    /\ response'.status = 200
    /\ response'.cursor # NoCursor
    /\ cursor' = response'.cursor
    /\ page_num' = page_num + 1
    /\ batch_i' = batch_i
    /\ api_pc' = "request"

\* the iteration left the loop: the next batch begins or the call returns
LoopLeft ==
    /\ response'.status # 200 \/ response'.cursor = NoCursor
    /\ cursor' = NoCursor
    /\ page_num' = 1
    /\ \/ batch_i' = batch_i + BatchSize /\ api_pc' = "request"
       \/ batch_i' = batch_i /\ api_pc' = "done"
               /\ batch_i + BatchSize >= Len(api_arg)

\* C32: every call of get_streams comes to its return, whatever the watch
\* list and whichever requests fail, when the cursor chain of each batch is
\* finite; each iteration of the page loop either consumes a page and moves
\* to the cursor it returned or leaves the loop, and a page without a cursor
\* leaves it.
C32_GetStreamsTerminates ==
    /\ (api_op = "get_streams") ~> (api_op = "get_streams" /\ api_pc = "done")
    /\ [][IterationEnds => (PageConsumed \/ LoopLeft)]_vars
    /\ [](api_op = "get_streams" =>
            /\ page_num <= MaxPages
            /\ batch_i = 0 \/ batch_i < Len(api_arg))

\* a call over two batches has returned: a request of it had failed, and the
\* last request was answered with 401, sent again and brought the last page
C32_Witness ==
    /\ api_op = "get_streams"
    /\ api_pc = "done"
    /\ batch_i = BatchSize
    /\ request_failed
    /\ settled.first = 401
    /\ settled.last = 200
    /\ response.cursor = NoCursor
    /\ all_streams # << >>

(***************************************************************************)
(* Properties of the retry after a 401 in get_streams                      *)
(***************************************************************************)
\* what the page loop of a batch collects from page k on when every request
\* is answered at its first sending
RECURSIVE PagesFrom(_, _, _)
PagesFrom(batch, after, acc) ==
    LET page == ServerPage([batch |-> batch, after |-> after])
        added == AddStreams(acc.all_streams, acc.seen_stream_ids, page.data)
    IN  IF page.cursor = NoCursor THEN added
        ELSE PagesFrom(batch, page.cursor, added)

\* the result of get_streams(game_ids) from batch i on, with no 401
RECURSIVE BatchesFrom(_, _, _)
BatchesFrom(game_ids, i, acc) ==
    IF i >= Len(game_ids) THEN acc.all_streams
    ELSE BatchesFrom(game_ids, i + BatchSize,
                     PagesFrom(Batch(game_ids, i), NoCursor, acc))

ResultWithout401(game_ids) ==
    BatchesFrom(game_ids, 0, [all_streams |-> << >>, seen_stream_ids |-> {}])

\* the steps between the 401 and the second sending of a request
Reauthenticating ==
    /\ api_op = "get_streams"
    /\ \/ api_pc = "request" /\ api_pc' = "validate"
       \/ api_pc \in {"validate", "token"} /\ api_pc' \in {"token", "retry"}

\* the second sending of a request is answered
Retried ==
    /\ api_op = "get_streams"
    /\ api_pc = "retry"
    /\ api_pc' # "retry"

\* C35: a 401 followed by a successful re-authentication and a successful
\* retry does not show in the result of get_streams: the retry asks for the
\* page of the same batch and cursor, the loop goes on from the cursor the
\* retry returned, and the call returns what it returns when no request is
\* answered with 401, every page once and no stream twice.
C35_RetryTransparent ==
    /\ []((api_op = "get_streams" /\ api_pc = "done") =>
            /\ api_result = ResultWithout401(api_arg)
            /\ \A i, j \in DOMAIN api_result :
                  stream_id(api_result[i]) = stream_id(api_result[j]) => i = j)
    /\ [][/\ Reauthenticating =>
                UNCHANGED <<batch_i, cursor, page_num, all_streams, seen_stream_ids>>
          /\ Retried =>
                /\ response' = ServerPage([batch |-> Batch(api_arg, batch_i),
                                           after |-> cursor])
                /\ response'.cursor # NoCursor =>
                      /\ cursor' = response'.cursor
                      /\ batch_i' = batch_i
                      /\ page_num' = page_num + 1
                /\ response'.cursor = NoCursor =>
                      api_pc' = "done" \/ batch_i' = batch_i + BatchSize
      ]_vars

\* the call for games 1 and 2 has returned three streams; the request for
\* its second page was answered with 401, the token was renewed and the
\* second sending brought the page, with a stream of the first page in it
C35_Witness ==
    /\ api_op = "get_streams"
    /\ api_pc = "done"
    /\ api_arg = IdList(2)
    /\ settled.first = 401
    /\ settled.validated
    /\ settled.last = 200
    /\ twitch_token = 2
    /\ Len(api_result) = 3
    /\ \E k \in DOMAIN response.data : response.data[k] = api_result[1]

(***************************************************************************)
(* Properties of the ignore command as a critical section                  *)
(***************************************************************************)
\* two arguments of the command that name the same channel
SameChannel(a, b) == str_strip(str_lower(a)) = str_strip(str_lower(b))

\* the list has one entry more and the entries it had
EntryAppended ==
    /\ Len(config'.ignored_channels) = Len(config.ignored_channels) + 1
    /\ SubSeq(config'.ignored_channels, 1, Len(config.ignored_channels))
          = config.ignored_channels

\* a command reads the list, appends and persists in one step, in which no
\* task of the poll cycle moves
C33_OneStep ==
    (restarts' = restarts /\ config'.ignored_channels # config.ignored_channels) =>
        /\ EntryAppended
        /\ config_file' \in {save_config(config_file, config', o) : o \in WriteOutcomes}
        /\ UNCHANGED <<pc, ledgerVars>>

\* a channel has one entry, however many commands named it
C33_OneEntryPerChannel ==
    \A i, j \in DOMAIN config.ignored_channels :
        SameChannel(config.ignored_channels[i], config.ignored_channels[j])
            => i = j

\* every channel a command named has an entry
C33_NoLostUpdate ==
    \A ch \in ignore_args :
        \E k \in DOMAIN config.ignored_channels :
            SameChannel(config.ignored_channels[k], ch)

\* C33 as stated: the read, check, append, persist and reload of the ignore
\* command are one step with respect to the poll cycle and to other ignore
\* commands, so that commands for the same channel add one entry only and
\* no update of the configuration is lost.
C33_IgnoreSerialized ==
    /\ [](C33_OneEntryPerChannel /\ C33_NoLostUpdate)
    /\ [][C33_OneStep]_vars

(***************************************************************************)
(* Properties of a cycle without new streams                               *)
(***************************************************************************)
\* check_and_notify of task t has fetched and filtered and found no new
\* stream
NothingNewFound(t) ==
    /\ pc[t] \in {"start", "sleep"}
    /\ pc'[t] = "checked"
    /\ new_streams'[t] = << >>

\* check_and_notify of task t returns without new streams
NothingNewReturns(t) ==
    /\ pc[t] = "checked"
    /\ new_streams[t] = << >>
    /\ mode' = "monitoring"
    /\ restarts' = restarts

C34_NothingNewIffAllNotified ==
    \A t \in Tasks :
        pc[t] = "checked" =>
            /\ new_streams[t] = << >>
                  <=> \A k \in DOMAIN filtered_streams[t] :
                         get_stream_id(filtered_streams[t][k]) \in notified_streams
            /\ new_streams[t] = << >> => embeds[t] = << >>

C34_Untouched ==
    \A t \in Tasks :
        /\ NothingNewFound(t) =>
              UNCHANGED <<notified_streams, ledger_file, config, config_file,
                          delivered>>
        /\ NothingNewReturns(t) =>
              /\ pc'[t] = "sleep"
              /\ UNCHANGED <<notified_streams, ledger_file, config, config_file,
                             delivered>>

\* C34: a cycle in which no new stream qualifies (no game, nothing fetched,
\* every stream filtered out, or every qualifying stream in the ledger)
\* goes from the filter to its sleep without a send, and leaves
\* notified_streams, the ledger file and the configuration as they were.
C34_QuietCycle == []C34_NothingNewIffAllNotified /\ [][C34_Untouched]_vars

\* the second cycle of a session found the qualifying streams in the ledger,
\* which the first cycle had delivered, and sleeps
C34_Witness ==
    \E t \in Tasks :
        /\ pc[t] = "sleep"
        /\ phases[t] = <<"Fetching", "Filtering", "Sleeping">>
        /\ cycles = 2
        /\ restarts = 0
        /\ \E k \in notified_streams : delivered[k] = 1
====
